---- MODULE Spec2Model ----
(***************************************************************************)
(* A model of zip_files' backend (src/src/zip_files/backend.py): the       *)
(* gitignore glob translator, the aggregation of the exclude patterns and  *)
(* the recursive walk that writes the archive; and of the two commands,    *)
(* zip-files and zip-folder, that call it.                                 *)
(*                                                                         *)
(* Strings are sequences of one-character strings, paths are sequences of  *)
(* components (each a string), as pathlib keeps them.                      *)
(***************************************************************************)
EXTENDS Integers, Sequences, FiniteSets, Bags, TLC

VARIABLES
    root_folder,          \* zip_files(root_folder=...): <<>> is None, else <<path>>
    exclude_arg,          \* zip_files(exclude=...): the caller's explicit patterns
    exclude_from,         \* zip_files(exclude_from=...): paths of exclude-list files
    exclude_dotfiles,     \* zip_files(exclude_dotfiles=...)
    exclude_vcs,          \* zip_files(exclude_vcs=...)
    exclude_git_ignores,  \* zip_files(exclude_git_ignores=...)
    files,                \* zip_files(files=...): the top-level inputs, in order
    pc,                   \* position in zip_files
    exclude,              \* the local list `exclude` of zip_files
    idx,                  \* index of the running for-loop over exclude_from / files
    gi_todo,              \* .gitignore files of the current input not yet read
    stack,                \* the _add_to_zip recursion: per directory, entries left
    zipfile,              \* the ZipFile: its state, its member names and members
    log,                  \* history: one record per regular file visited
    warnings,             \* number of WARNING lines echoed
    t_prefix,             \* translator run: prefix argument
    t_pattern,            \* translator run: pattern argument
    t_path,               \* translator run: candidate path
    t_regex,              \* translator run: regex returned (<<>> before the call)
    t_pc,                 \* translator run: "call", "compiled", "matched", "nomatch"
    t_keys,               \* translator run: the placeholder keys drawn, in order
    cmd,                  \* command line: "zip-files" or "zip-folder"
    argv,                 \* command line: the options given, in their order
    args,                 \* command line: the FILES, or the FOLDER
    cli_pc,               \* command line: "parse", "parsed", "usage_error", "invoked"
    message,              \* command line: the message of the usage error
    compression,          \* zip_files(compression=...): the compression method
    unreadable,           \* file system: the regular files that cannot be read
    vcs_excludes,         \* the list _VCS_EXCLUDES of the module backend
    raised                \* the exception that ended zip_files: <<>> if none

vars == <<root_folder, exclude_arg, exclude_from, exclude_dotfiles, exclude_vcs,
          exclude_git_ignores, files, pc, exclude, idx, gi_todo, stack, zipfile,
          log, warnings, t_prefix, t_pattern, t_path, t_regex, t_pc, t_keys,
          cmd, argv, args, cli_pc, message, compression, unreadable,
          vcs_excludes, raised>>

envVars == <<compression, unreadable, vcs_excludes>>

buildVars == <<root_folder, exclude_arg, exclude_from, exclude_dotfiles, exclude_vcs,
               exclude_git_ignores, files, pc, exclude, idx, gi_todo, stack,
               zipfile, log, warnings, envVars, raised>>

transVars == <<t_prefix, t_pattern, t_path, t_regex, t_pc, t_keys>>

cliVars == <<cmd, argv, args, cli_pc, message>>

(***************************************************************************)
(* Strings                                                                 *)
(***************************************************************************)

\* str.startswith / str.endswith
StartsWith(s, p) ==
    /\ Len(p) <= Len(s)
    /\ SubSeq(s, 1, Len(p)) = p

EndsWith(s, p) ==
    /\ Len(p) <= Len(s)
    /\ SubSeq(s, Len(s) - Len(p) + 1, Len(s)) = p

\* the characters str.strip() removes
Whitespace == {" ", "\n", "\t"}

RECURSIVE LStrip(_)
LStrip(s) ==
    IF s # <<>> /\ s[1] \in Whitespace THEN LStrip(Tail(s)) ELSE s

RECURSIVE RStrip(_)
RStrip(s) ==
    IF s # <<>> /\ s[Len(s)] \in Whitespace
    THEN RStrip(SubSeq(s, 1, Len(s) - 1))
    ELSE s

\* str.strip()
Strip(s) == LStrip(RStrip(s))

\* sub occurs in s at position i
OccursAt(s, sub, i) ==
    /\ i + Len(sub) - 1 <= Len(s)
    /\ SubSeq(s, i, i + Len(sub) - 1) = sub

\* str.replace(sub, <<tok>>): every non-overlapping occurrence, left to right
RECURSIVE ReplaceAll(_, _, _)
ReplaceAll(s, sub, tok) ==
    IF s = <<>> \/ sub = <<>> THEN s
    ELSE IF OccursAt(s, sub, 1)
         THEN <<tok>> \o ReplaceAll(SubSeq(s, Len(sub) + 1, Len(s)), sub, tok)
         ELSE <<s[1]>> \o ReplaceAll(Tail(s), sub, tok)

\* number of non-overlapping occurrences of sub in s, scanning from the left
RECURSIVE CountOccurrences(_, _)
CountOccurrences(s, sub) ==
    IF Len(s) < Len(sub) THEN 0
    ELSE IF OccursAt(s, sub, 1)
         THEN 1 + CountOccurrences(SubSeq(s, Len(sub) + 1, Len(s)), sub)
         ELSE CountOccurrences(Tail(s), sub)

\* concatenation of a sequence of sequences
RECURSIVE Flatten(_)
Flatten(ss) ==
    IF ss = <<>> THEN <<>> ELSE ss[1] \o Flatten(Tail(ss))

\* position of the first element of s, at or after i, that is c (0: none)
RECURSIVE IndexFrom(_, _, _)
IndexFrom(s, c, i) ==
    IF i > Len(s) THEN 0
    ELSE IF s[i] = c THEN i
    ELSE IndexFrom(s, c, i + 1)

\* the characters in code-point order, which `re` and `fnmatch` order ranges by
CharOrder ==
    <<
      "\t", "\n", " ", "!", "#", "$", "%", "&", "'", "(", ")", "*", "+", ",",
      "-", ".", "/", "0", "1", "2", "3", "4", "5", "6", "7", "8", "9", ":",
      ";", "<", "=", ">", "?", "@", "A", "B", "C", "D", "E", "F", "G", "H",
      "I", "J", "K", "L", "M", "N", "O", "P", "Q", "R", "S", "T", "U", "V",
      "W", "X", "Y", "Z", "[", "\\", "]", "^", "_", "a", "b", "c", "d", "e",
      "f", "g", "h", "i", "j", "k", "l", "m", "n", "o", "p", "q", "r", "s",
      "t", "u", "v", "w", "x", "y", "z", "{", "|", "}", "~" >>

Ord(c) == IndexFrom(CharOrder, c, 1)

(***************************************************************************)
(* Regular expressions: a regex is a sequence of tokens, each standing for *)
(* one piece of regex syntax that gitignore_to_regex emits, and RxMatch is *)
(* what `re` does with it (backtracking, leftmost, anchored at the start). *)
(***************************************************************************)

\* an escaped character, re.escape(c): it matches c and nothing else
Lit(c) == [t |-> "lit", c |-> <<c>>]

\* a piece of regex syntax
Tok(name) == [t |-> name, c |-> <<>>]

\* a bracket expression inserted raw, [body]
Class(body) == [t |-> "class", c |-> body]

\* re.escape(s) of a string
Escape(s) == [n \in 1..Len(s) |-> Lit(s[n])]

\* membership of ch in the regex character class [body]: a leading ^ negates,
\* x-y is a range, a backslash quotes the next character
RECURSIVE ClassHas(_, _, _)
ClassHas(body, i, ch) ==
    IF i > Len(body) THEN FALSE
    ELSE IF body[i] = "\\" /\ i < Len(body)
         THEN body[i + 1] = ch \/ ClassHas(body, i + 2, ch)
    ELSE IF i + 2 <= Len(body) /\ body[i + 1] = "-"
         THEN (Ord(body[i]) <= Ord(ch) /\ Ord(ch) <= Ord(body[i + 2]))
              \/ ClassHas(body, i + 3, ch)
    ELSE body[i] = ch \/ ClassHas(body, i + 1, ch)

InClass(body, ch) ==
    IF body # <<>> /\ body[1] = "^"
    THEN ~ClassHas(body, 2, ch)
    ELSE ClassHas(body, 1, ch)

\* the class [body] has a range x-y whose ends are in the wrong order
RECURSIVE ClassBadRange(_, _)
ClassBadRange(body, i) ==
    IF i > Len(body) THEN FALSE
    ELSE IF body[i] = "\\" /\ i < Len(body) THEN ClassBadRange(body, i + 2)
    ELSE IF i + 2 <= Len(body) /\ body[i + 1] = "-"
         THEN Ord(body[i]) > Ord(body[i + 2]) \/ ClassBadRange(body, i + 3)
    ELSE ClassBadRange(body, i + 1)

\* the "]" that ends [body] does not end the set for `re`: a "]" that comes
\* first in a set is a member of it, and one after a backslash is quoted
ClassUnterminated(body) ==
    \/ body = <<>>
    \/ body = <<"^">>
    \/ EndsWith(body, <<"\\">>) /\ ~EndsWith(body, <<"\\", "\\">>)

\* re.compile(regex) returns: every set of the regex is closed (by its own
\* "]" or by that of a later bracket expression, all other "]" being
\* escaped) and has no range in the wrong order
RxCompiles(rx) ==
    \A i \in 1..Len(rx) :
        rx[i].t = "class" =>
            /\ ~ClassBadRange(rx[i].c, IF StartsWith(rx[i].c, <<"^">>)
                                       THEN 2 ELSE 1)
            /\ ClassUnterminated(rx[i].c) =>
                  \E k \in (i + 1)..Len(rx) : rx[k].t = "class"

\* no character of s[i..j-1] is in the set bad
NoneIn(s, i, j, bad) == \A n \in i..(j - 1) : s[n] \notin bad

\* rx[i..] matches s from position j on (re.match: the end of s need not be
\* reached unless the regex says so). "." does not match a newline, "$"
\* matches at the end and before a final newline.
RECURSIVE RxMatchFrom(_, _, _, _)
RxMatchFrom(rx, i, s, j) ==
    IF i > Len(rx) THEN TRUE
    ELSE LET tok == rx[i]
             n == Len(s)
             Rest(k) == RxMatchFrom(rx, i + 1, s, k)
         IN CASE tok.t = "bol" -> j = 1 /\ Rest(j)
              [] tok.t = "eol" ->
                    (j = n + 1 \/ (j = n /\ s[j] = "\n")) /\ Rest(j)
              [] tok.t = "lit" ->
                    j <= n /\ s[j] = tok.c[1] /\ Rest(j + 1)
              [] tok.t = "class" ->
                    j <= n /\ InClass(tok.c, s[j]) /\ Rest(j + 1)
              \* [^/]
              [] tok.t = "nonsep" ->
                    j <= n /\ s[j] # "/" /\ Rest(j + 1)
              \* [^/]+
              [] tok.t = "nonseps" ->
                    \E k \in (j + 1)..(n + 1) :
                        NoneIn(s, j, k, {"/"}) /\ Rest(k)
              \* .*
              [] tok.t = "any" ->
                    \E k \in j..(n + 1) :
                        NoneIn(s, j, k, {"\n"}) /\ Rest(k)
              \* (?:.*/)?
              [] tok.t = "optdirs" ->
                    \/ \E k \in j..n :
                        s[k] = "/" /\ NoneIn(s, j, k, {"\n"}) /\ Rest(k + 1)
                    \/ Rest(j)
              \* (?:/[^/]+)*
              [] tok.t = "dirs" ->
                    \/ /\ j <= n
                       /\ s[j] = "/"
                       /\ \E k \in (j + 2)..(n + 1) :
                            NoneIn(s, j + 1, k, {"/"}) /\ RxMatchFrom(rx, i, s, k)
                    \/ Rest(j)
              \* /?
              [] tok.t = "optsep" ->
                    \/ (j <= n /\ s[j] = "/" /\ Rest(j + 1))
                    \/ Rest(j)
              \* (?:/.*)?
              [] tok.t = "opttail" ->
                    \/ /\ j <= n
                       /\ s[j] = "/"
                       /\ \E k \in (j + 1)..(n + 1) :
                            NoneIn(s, j + 1, k, {"\n"}) /\ Rest(k)
                    \/ Rest(j)
              [] OTHER -> FALSE

\* re.compile(regex).match(s)
RxMatch(rx, s) == RxMatchFrom(rx, 1, s, 1)

(***************************************************************************)
(* gitignore_to_regex                                                      *)
(***************************************************************************)

\* sep = re.escape(os.path.sep)
sep == <<Lit("/")>>

\* the protected pattern is text in which a glob construct is replaced by a
\* key: Chr is a character of the pattern, Key(n) the n-th random key drawn
Chr(c) == [key |-> 0, ch |-> c]

Key(n) == [key |-> n, ch |-> ""]

ToChrs(s) == [n \in 1..Len(s) |-> Chr(s[n])]

\* the list `replacements` with "*" translated to ".*", which matches nothing
\* and crosses separators (a faulty variant, to test the properties against)
replacementsStarAny ==
    << [expr |-> <<"*", "*", "/">>, at |-> "start", repl |-> <<Tok("optdirs")>>],
       [expr |-> <<"/", "*", "*">>, at |-> "end",
        repl |-> sep \o <<Tok("any"), Tok("eol")>>],
       [expr |-> <<"/", "*", "*", "/">>, at |-> "any",
        repl |-> <<Tok("dirs"), Tok("optsep")>>],
       [expr |-> <<"*">>, at |-> "any", repl |-> <<Tok("any")>>],
       [expr |-> <<"?">>, at |-> "any", repl |-> <<Tok("nonsep")>>],
       [expr |-> <<"/">>, at |-> "any", repl |-> sep] >>

\* the list `replacements`: the text each rx finds, where it may find it, and
\* the regex it stands for
replacements ==
    << [expr |-> <<"*", "*", "/">>, at |-> "start", repl |-> <<Tok("optdirs")>>],
       [expr |-> <<"/", "*", "*">>, at |-> "end",
        repl |-> sep \o <<Tok("any"), Tok("eol")>>],
       [expr |-> <<"/", "*", "*", "/">>, at |-> "any",
        repl |-> <<Tok("dirs"), Tok("optsep")>>],
       [expr |-> <<"*">>, at |-> "any", repl |-> <<Tok("nonseps")>>],
       [expr |-> <<"?">>, at |-> "any", repl |-> <<Tok("nonsep")>>],
       [expr |-> <<"/">>, at |-> "any", repl |-> sep] >>

\* rx.findall(pattern): how many times the rx matches (each match is r.expr)
FindAll(r, pattern) ==
    CASE r.at = "start" -> IF StartsWith(pattern, r.expr) THEN 1 ELSE 0
      [] r.at = "end" -> IF EndsWith(pattern, r.expr) THEN 1 ELSE 0
      [] OTHER -> CountOccurrences(pattern, r.expr)

\* re.findall(r'\[.*?\]', pattern): from each "[" to the next "]"
RECURSIVE FindRanges(_, _)
FindRanges(s, i) ==
    IF i > Len(s) THEN <<>>
    ELSE IF s[i] = "["
         THEN LET j == IndexFrom(s, "]", i + 1)
              IN IF j = 0 THEN <<>>
                 ELSE <<SubSeq(s, i, j)>> \o FindRanges(s, j + 1)
    ELSE FindRanges(s, i + 1)

\* Normalize without lines 72-77: "**/" is not prepended to a pattern that
\* has no inner slash (a faulty variant, to test the properties against)
NormalizeNoPrepend(pattern) ==
    LET p1 == Strip(pattern)
        p2 == IF EndsWith(p1, <<"\\">>) THEN p1 \o <<" ">> ELSE p1
    IN IF EndsWith(p2, <<"/">>) THEN p2 \o <<"*", "*">> ELSE p2

\* Normalize without lines 78-85: "**" is not appended to a pattern that ends
\* with a slash (a faulty variant, to test the properties against)
NormalizeNoAppend(pattern) ==
    LET p1 == Strip(pattern)
        p2 == IF EndsWith(p1, <<"\\">>) THEN p1 \o <<" ">> ELSE p1
    IN IF IndexFrom(SubSeq(p2, 1, Len(p2) - 1), "/", 1) = 0
       THEN <<"*", "*", "/">> \o p2
       ELSE p2

\* the normalisation of the pattern, backend.py lines 69-85
Normalize(pattern) ==
    LET p1 == Strip(pattern)
        p2 == IF EndsWith(p1, <<"\\">>) THEN p1 \o <<" ">> ELSE p1
        p3 == IF IndexFrom(SubSeq(p2, 1, Len(p2) - 1), "/", 1) = 0
              THEN <<"*", "*", "/">> \o p2
              ELSE p2
    IN IF EndsWith(p3, <<"/">>) THEN p3 \o <<"*", "*">> ELSE p3

\* every (glob_expr, repl) the two protection loops visit, in order
GlobExprs(pattern) ==
    Flatten([r \in 1..Len(replacements) |->
                [m \in 1..FindAll(replacements[r], pattern) |->
                    [expr |-> replacements[r].expr,
                     repl |-> replacements[r].repl]]])
    \o LET ranges == FindRanges(pattern, 1)
       IN [m \in 1..Len(ranges) |->
              [expr |-> ranges[m],
               repl |-> <<Class(SubSeq(ranges[m], 2, Len(ranges[m]) - 1))>>]]

\* protected_pattern after the first n glob expressions were replaced by keys
RECURSIVE Protect(_, _, _)
Protect(prot, exprs, n) ==
    IF n = 0 THEN prot
    ELSE ReplaceAll(Protect(prot, exprs, n - 1), ToChrs(exprs[n].expr), Key(n))

\* re.escape(protected_pattern), then every key replaced by its regex
Unprotect(prot, exprs) ==
    Flatten([n \in 1..Len(prot) |->
                IF prot[n].key = 0
                THEN <<Lit(prot[n].ch)>>
                ELSE exprs[prot[n].key].repl])

\* the regex without the separator between the prefix and the pattern (a
\* faulty variant, to test the properties against)
gitignore_to_regexNoSep(prefix, pattern) ==
    LET norm == Normalize(pattern)
        exprs == GlobExprs(norm)
        prot == Protect(ToChrs(norm), exprs, Len(exprs))
        body == Unprotect(prot, exprs)
        regex_pattern == IF StartsWith(body, sep)
                         THEN SubSeq(body, Len(sep) + 1, Len(body))
                         ELSE body
    IN <<Tok("bol")>> \o Escape(prefix) \o regex_pattern
       \o <<Tok("opttail"), Tok("eol")>>

\* the regex without the group that lets it match deeper paths (a faulty
\* variant, to test the properties against)
gitignore_to_regexNoTail(prefix, pattern) ==
    LET norm == Normalize(pattern)
        exprs == GlobExprs(norm)
        prot == Protect(ToChrs(norm), exprs, Len(exprs))
        body == Unprotect(prot, exprs)
        regex_pattern == IF StartsWith(body, sep)
                         THEN SubSeq(body, Len(sep) + 1, Len(body))
                         ELSE body
    IN <<Tok("bol")>> \o Escape(prefix) \o sep \o regex_pattern
       \o <<Tok("eol")>>

\* gitignore_to_regex(prefix, pattern): prefix and pattern are strings. The
\* keys drawn at lines 108 and 117 are taken to differ from each other and
\* not to occur in the pattern: the n-th expression gets Key(n).
gitignore_to_regex(prefix, pattern) ==
    LET norm == Normalize(pattern)
        exprs == GlobExprs(norm)
        prot == Protect(ToChrs(norm), exprs, Len(exprs))
        body == Unprotect(prot, exprs)
        regex_pattern == IF StartsWith(body, sep)
                         THEN SubSeq(body, Len(sep) + 1, Len(body))
                         ELSE body
    IN <<Tok("bol")>> \o Escape(prefix) \o sep \o regex_pattern
       \o <<Tok("opttail"), Tok("eol")>>

\* protected_pattern after the first n glob expressions were replaced, the
\* n-th by the key keys[n] drawn for it (lines 106-118)
RECURSIVE ProtectKeyed(_, _, _, _)
ProtectKeyed(prot, exprs, keys, n) ==
    IF n = 0 THEN prot
    ELSE ReplaceAll(ProtectKeyed(prot, exprs, keys, n - 1),
                    ToChrs(exprs[n].expr), Key(keys[n]))

\* lines 121-124: the replacements are undone in the order they were made
\* in, so a key stands for the regex of the first expression it was drawn
\* for
UnprotectKeyed(prot, exprs, keys) ==
    Flatten([n \in 1..Len(prot) |->
                IF prot[n].key = 0
                THEN <<Lit(prot[n].ch)>>
                ELSE exprs[CHOOSE m \in 1..Len(keys) :
                              /\ keys[m] = prot[n].key
                              /\ \A k \in 1..(m - 1) : keys[k] # prot[n].key].repl])

\* gitignore_to_regex(prefix, pattern) when random.choices returns keys[n]
\* for the n-th glob expression: two draws may give the same key
gitignore_to_regex_keyed(prefix, pattern, keys) ==
    LET norm == Normalize(pattern)
        exprs == GlobExprs(norm)
        prot == ProtectKeyed(ToChrs(norm), exprs, keys, Len(exprs))
        body == UnprotectKeyed(prot, exprs, keys)
        regex_pattern == IF StartsWith(body, sep)
                         THEN SubSeq(body, Len(sep) + 1, Len(body))
                         ELSE body
    IN <<Tok("bol")>> \o Escape(prefix) \o sep \o regex_pattern
       \o <<Tok("opttail"), Tok("eol")>>

(***************************************************************************)
(* Paths (pathlib): a path is the sequence of its components, <<>> is      *)
(* Path("."); a component is a string.                                     *)
(***************************************************************************)

\* Path.parent
Parent(path) == SubSeq(path, 1, Len(path) - 1)

\* Path.name
Name(path) == IF path = <<>> THEN <<>> ELSE path[Len(path)]

\* path is base or lies beneath it
IsBeneath(path, base) ==
    /\ Len(base) <= Len(path)
    /\ SubSeq(path, 1, Len(base)) = base

\* Path.relative_to(base), for a path beneath base
RelativeTo(path, base) == SubSeq(path, Len(base) + 1, Len(path))

\* str(path): the components joined by the separator, "." for no component
RECURSIVE PathStr(_)
PathStr(path) ==
    IF path = <<>> THEN <<".">>
    ELSE IF Len(path) = 1 THEN path[1]
    ELSE path[1] \o <<"/">> \o PathStr(Tail(path))

\* str.rfind(c): the last position of c in s, 0 if none
RECURSIVE LastIndex(_, _)
LastIndex(s, c) ==
    IF s = <<>> THEN 0
    ELSE IF s[Len(s)] = c THEN Len(s)
    ELSE LastIndex(SubSeq(s, 1, Len(s) - 1), c)

\* Path.stem of a path whose last component is name: the name without its
\* last suffix; a leading or a final dot starts no suffix
Stem(name) ==
    LET i == LastIndex(name, ".")
    IN IF 1 < i /\ i < Len(name) THEN SubSeq(name, 1, i - 1) ELSE name

\* the components of a path given as a string, from position i on: split at
\* "/", with empty components and "." dropped (pathlib's parse_parts)
RECURSIVE SplitParts(_, _)
SplitParts(s, i) ==
    IF i > Len(s) THEN <<>>
    ELSE LET j == IndexFrom(s, "/", i)
             e == IF j = 0 THEN Len(s) + 1 ELSE j
             part == SubSeq(s, i, e - 1)
         IN (IF part = <<>> \/ part = <<".">> THEN <<>> ELSE <<part>>)
            \o SplitParts(s, e + 1)

ParseParts(s) == SplitParts(s, 1)

\* the string names an absolute path (one leading slash, or three and more)
HasRoot(s) == s # <<>> /\ s[1] = "/"

(***************************************************************************)
(* fnmatch.fnmatchcase and PurePath.match, as filename.match(pattern) uses *)
(* them                                                                    *)
(***************************************************************************)

\* the end of the bracket expression that opens at pat[i] = "[": the position
\* of its "]" (a "]" right after "[" or "[!" is a member), 0 if it never ends
FnClassEnd(pat, i) ==
    LET j1 == IF i + 1 <= Len(pat) /\ pat[i + 1] = "!" THEN i + 2 ELSE i + 1
        j2 == IF j1 <= Len(pat) /\ pat[j1] = "]" THEN j1 + 1 ELSE j1
    IN IndexFrom(pat, "]", j2)

\* ch is a member of the items body[i..]: x-y is a range, the rest is literal
RECURSIVE FnClassHas(_, _, _)
FnClassHas(body, i, ch) ==
    IF i > Len(body) THEN FALSE
    ELSE IF i + 2 <= Len(body) /\ body[i + 1] = "-"
         THEN (Ord(body[i]) <= Ord(ch) /\ Ord(ch) <= Ord(body[i + 2]))
              \/ FnClassHas(body, i + 3, ch)
    ELSE body[i] = ch \/ FnClassHas(body, i + 1, ch)

\* pat[i..] matches the whole of s[j..]
RECURSIVE FnMatchFrom(_, _, _, _)
FnMatchFrom(pat, i, s, j) ==
    IF i > Len(pat) THEN j = Len(s) + 1
    ELSE IF pat[i] = "*"
         THEN \E k \in j..(Len(s) + 1) : FnMatchFrom(pat, i + 1, s, k)
    ELSE IF pat[i] = "?"
         THEN j <= Len(s) /\ FnMatchFrom(pat, i + 1, s, j + 1)
    ELSE IF pat[i] = "[" /\ FnClassEnd(pat, i) # 0
         THEN LET e == FnClassEnd(pat, i)
                  neg == pat[i + 1] = "!"
                  body == SubSeq(pat, IF neg THEN i + 2 ELSE i + 1, e - 1)
              IN /\ j <= Len(s)
                 /\ FnClassHas(body, 1, s[j]) # neg
                 /\ FnMatchFrom(pat, e + 1, s, j + 1)
    ELSE j <= Len(s) /\ s[j] = pat[i] /\ FnMatchFrom(pat, i + 1, s, j + 1)

\* fnmatch.fnmatchcase(name, pat)
fnmatchcase(name, pat) == FnMatchFrom(pat, 1, name, 1)

\* PurePath.match raises ValueError("empty pattern")
MatchRaises(pattern) == ParseParts(pattern) = <<>> /\ ~HasRoot(pattern)

\* the first n components of path match the n components pats: matching from
\* the left (a faulty variant, to test the properties against)
PrefixMatches(path, pats) ==
    \A n \in 1..Len(pats) : fnmatchcase(path[n], pats[n])

\* the last n components of path match the n components pats, one by one
SuffixMatches(path, pats) ==
    \A n \in 1..Len(pats) :
        fnmatchcase(path[Len(path) - Len(pats) + n], pats[n])

\* PurePath.match: filename.match(pattern), for a relative filename. The
\* components are compared from the right and the pattern may be shorter than
\* the path; a rooted pattern matches no relative path.
PathMatch(filename, pattern) ==
    LET pat_parts == ParseParts(pattern)
    IN /\ ~HasRoot(pattern)
       /\ Len(pat_parts) <= Len(filename)
       /\ SuffixMatches(filename, pat_parts)

(***************************************************************************)
(* Exclusion patterns                                                      *)
(***************************************************************************)

\* the list _VCS_EXCLUDES
_VCS_EXCLUDES ==
    << <<"C", "V", "S", "/", "*">>,
       <<"R", "C", "S", "/", "*">>,
       <<"S", "C", "C", "S", "/", "*">>,
       <<".", "g", "i", "t", "/", "*">>,
       <<".", "g", "i", "t", "i", "g", "n", "o", "r", "e">>,
       <<".", "g", "i", "t", "m", "o", "d", "u", "l", "e", "s">>,
       <<".", "g", "i", "t", "a", "t", "t", "r", "i", "b", "u", "t", "e", "s">>,
       <<".", "c", "v", "s", "i", "g", "n", "o", "r", "e">>,
       <<".", "s", "v", "n", "/", "*">>,
       <<".", "a", "r", "c", "h", "-", "i", "d", "s", "/", "*">>,
       <<"{", "a", "r", "c", "h", "}", "/", "*">>,
       <<"=", "R", "E", "L", "E", "A", "S", "E", "-", "I", "D">>,
       <<"=", "m", "e", "t", "a", "-", "u", "p", "d", "a", "t", "e">>,
       <<"=", "u", "p", "d", "a", "t", "e">>,
       <<".", "b", "z", "r">>,
       <<".", "b", "z", "r", "i", "g", "n", "o", "r", "e">>,
       <<".", "b", "z", "r", "t", "a", "g", "s">>,
       <<".", "h", "g">>,
       <<".", "h", "g", "i", "g", "n", "o", "r", "e">>,
       <<".", "h", "g", "r", "a", "g", "s">>,
       <<"_", "d", "a", "r", "c", "s">> >>

\* an element of `exclude`: a str (glob) or a compiled regex
GlobPattern(s) == [kind |-> "str", pattern |-> s, regex |-> <<>>]

RegexPattern(rx) == [kind |-> "RegexPattern", pattern |-> <<>>, regex |-> rx]

(***************************************************************************)
(* The file system the builds run on: the names, the regular files, the    *)
(* directories and the text of the files that are read as text             *)
(***************************************************************************)

n_gitignore == <<".", "g", "i", "t", "i", "g", "n", "o", "r", "e">>

n_git == <<".", "g", "i", "t">>

n_hg == <<".", "h", "g">>

n_B_txt == <<"B", ".", "t", "x", "t">>

n_A == <<"A">>

n_X == <<"X">>

n_h == <<".", "h">>

n_5_md == <<"5", ".", "m", "d">>

n_1_txt == <<"1", ".", "t", "x", "t">>

n_p == <<"p">>

n_q == <<"q">>

n_b == <<"b">>



n_c == <<"c">>

n_o == <<"o">>

n_R == <<"R">>

n_x_lst == <<"x", ".", "l", "s", "t">>

n_y_lst == <<"y", ".", "l", "s", "t">>

\* the regular files, as paths relative to the working directory
FsFiles ==
    { <<n_B_txt>>,
      <<n_gitignore>>,
      <<n_x_lst>>,
      <<n_y_lst>>,
      <<n_A, n_X>>,
      <<n_A, n_h>>,
      <<n_p, n_gitignore>>,
      <<n_p, n_5_md>>,
      <<n_p, n_1_txt>>,
      <<n_p, n_b, n_gitignore>>,
      <<n_p, n_b, n_5_md>>,
      <<n_q, n_git, n_c>>,
      <<n_q, n_git, n_o, n_h>>,
      <<n_q, n_hg, n_1_txt>> }

\* the directories: every directory above a regular file
FsDirs == UNION {{SubSeq(f, 1, n) : n \in 1..(Len(f) - 1)} : f \in FsFiles}

\* Path.is_file, Path.is_dir
is_file(path) == path \in FsFiles

is_dir(path) == path \in FsDirs \cup {<<>>}

\* Path.iterdir: the entries of a directory (in no particular order)
iterdir(directory) ==
    {e \in FsFiles \cup FsDirs : e # <<>> /\ Parent(e) = directory}

\* path.glob('**/.gitignore'): the entries named .gitignore at any depth
\* beneath path
glob_gitignore(path) ==
    {e \in FsFiles \cup FsDirs :
        e # <<>> /\ IsBeneath(e, path) /\ Len(e) > Len(path) /\ Name(e) = n_gitignore}

\* the lines of the text files, without their line ends
FsText(path) ==
    CASE path = <<n_gitignore>> ->
            << <<"#", " ", "c">>, <<>>, <<"!", "k">>, n_B_txt, n_X >>
      [] path = <<n_p, n_gitignore>> ->
            << <<"/">> \o n_5_md >>
      [] path = <<n_p, n_b, n_gitignore>> ->
            << n_5_md >>
      [] path = <<n_x_lst>> ->
            << n_X, n_c >>
      [] path = <<n_y_lst>> ->
            << n_X, <<>>, n_c >>
      [] OTHER -> <<>>

\* the bytes of a regular file: here the characters of its path, so that
\* no two files have the same content
FsData(path) == PathStr(path)

\* st_mode of a regular file: 0o100644, and 0o100500 for B.txt, which only
\* its owner may read and execute
FsMode(path) == IF path = <<n_B_txt>> THEN 33088 ELSE 33188

\* in_fh.read().splitlines()
splitlines(path) == FsText(path)

\* for line in in_fh: every line with its line end
readlines(path) == [n \in 1..Len(FsText(path)) |-> FsText(path)[n] \o <<"\n">>]

(***************************************************************************)
(* The pattern sources                                                     *)
(***************************************************************************)

\* every line that is neither a comment nor blank is translated, the negated
\* ones too (a faulty variant, to test the properties against)
RECURSIVE GitignoreRegexesKeepNegated(_, _)
GitignoreRegexesKeepNegated(prefix, lines) ==
    IF lines = <<>> THEN <<>>
    ELSE LET line == lines[1]
             rest == GitignoreRegexesKeepNegated(prefix, Tail(lines))
         IN IF StartsWith(line, <<"#">>) \/ Strip(line) = <<>> THEN rest
            ELSE <<RegexPattern(gitignore_to_regex(PathStr(prefix), line))>>
                 \o rest

\* the lines of a .gitignore that are translated: not a comment, not blank,
\* not negated
RECURSIVE GitignoreRegexes(_, _)
GitignoreRegexes(prefix, lines) ==
    IF lines = <<>> THEN <<>>
    ELSE LET line == lines[1]
             rest == GitignoreRegexes(prefix, Tail(lines))
         IN IF StartsWith(line, <<"#">>) \/ Strip(line) = <<>> THEN rest
            ELSE IF StartsWith(line, <<"!">>) THEN rest
            ELSE <<RegexPattern(gitignore_to_regex(PathStr(prefix), line))>> \o rest

\* the number of WARNING lines one .gitignore causes
NegatedLines(lines) ==
    Cardinality({n \in 1..Len(lines) :
        /\ ~(StartsWith(lines[n], <<"#">>) \/ Strip(lines[n]) = <<>>)
        /\ StartsWith(lines[n], <<"!">>)})

\* the prefix of the patterns of one .gitignore: root_folder / folder
GitignorePrefix(gitignore, relative_to, root) ==
    LET rf == IF root = <<>> THEN <<>> ELSE root[1]
        folder == Parent(RelativeTo(gitignore, relative_to))
    IN rf \o folder

\* the patterns of a .gitignore followed by one for the .gitignore itself (a
\* faulty variant, to test the properties against)
GitignoreExcludesWithSelf(gitignore, relative_to, root) ==
    GitignoreRegexes(GitignorePrefix(gitignore, relative_to, root),
                     readlines(gitignore) \o <<n_gitignore>>)

\* _get_single_gitignore_excludes(gitignore, relative_to, root_folder)
_get_single_gitignore_excludes(gitignore, relative_to, root) ==
    GitignoreRegexes(GitignorePrefix(gitignore, relative_to, root),
                     readlines(gitignore))

\* _get_gitignore_excludes(path, ...): the .gitignore files it reads
GitignoresOf(path) ==
    IF is_dir(path) THEN glob_gitignore(path)
    ELSE IF Name(path) = n_gitignore THEN {path}
    ELSE {}

(***************************************************************************)
(* _add_to_zip                                                             *)
(***************************************************************************)

\* the name of `file` relative to its own parent directory, whatever input it
\* was reached from (a faulty variant, to test the properties against)
ArcPathFlat(file, relative_to, root) ==
    IF root = <<>> THEN <<Name(file)>> ELSE root[1] \o <<Name(file)>>

\* filename: the name of `file` inside the archive, lines 277-280
ArcPath(file, relative_to, root) ==
    IF root = <<>>
    THEN RelativeTo(file, relative_to)
    ELSE root[1] \o RelativeTo(file, relative_to)

\* a dotfile test on the whole in-archive name instead of its last component
\* (a faulty variant, to test the properties against)
IsDotfileWholePath(filename) == StartsWith(PathStr(filename), <<".">>)

\* the dotfile test of line 282
IsDotfile(filename) == StartsWith(Stem(Name(filename)), <<".">>)

\* pattern matches the in-archive name filename: lines 287 and 295
Matches(filename, pattern) ==
    IF pattern.kind = "RegexPattern"
    THEN RxMatch(pattern.regex, PathStr(filename))
    ELSE PathMatch(filename, pattern.pattern)

\* a loop that looks at the i-th pattern only (a faulty variant, to test the
\* properties against)
ScanFirstOnly(filename, excl, i) ==
    IF i > Len(excl) THEN "add"
    ELSE IF Matches(filename, excl[i]) THEN "skip"
    ELSE "add"

\* the loop over `exclude`, lines 285-301, from the i-th pattern on: "skip" at
\* the first pattern that matches, "raise" if a pattern cannot be evaluated,
\* "add" if the loop ends
RECURSIVE ScanExclude(_, _, _)
ScanExclude(filename, excl, i) ==
    IF i > Len(excl) THEN "add"
    ELSE LET pattern == excl[i]
         IN IF pattern.kind = "RegexPattern"
            THEN IF RxMatch(pattern.regex, PathStr(filename))
                 THEN "skip"
                 ELSE ScanExclude(filename, excl, i + 1)
            ELSE IF pattern.kind = "str"
            THEN IF MatchRaises(pattern.pattern) THEN "raise"
                 ELSE IF PathMatch(filename, pattern.pattern) THEN "skip"
                 ELSE ScanExclude(filename, excl, i + 1)
            ELSE "raise"

\* what _add_to_zip does with a regular file whose in-archive name is filename
FileOutcome(filename, excl, dotfiles) ==
    IF dotfiles /\ IsDotfile(filename) THEN "skip"
    ELSE ScanExclude(filename, excl, 1)

\* file.read_bytes(), for a file that can be read
read_bytes(file) == FsData(file)

\* the member is given the attributes of a member written by name only,
\* 0o600 (a faulty variant, to test the properties against)
from_fileByName(file, arcname) ==
    [filename |-> arcname,
     external_attr |-> <<384, 0>>]

\* ZipInfo.from_file(file, arcname=...): the member's name and its Unix
\* attributes, (st_mode & 0xFFFF) << 16. The 32 bits of external_attr are
\* kept as two halves of 16 bits, the high one first.
from_file(file, arcname) ==
    [filename |-> arcname,
     external_attr |-> <<FsMode(file) % 65536, 0>>]

\* lines 304-305: zinfo.compress_type = compression and
\* zipfile.writestr(zinfo, data): the member as the archive holds it
writestr(zinfo, data, compress_type) ==
    [filename |-> zinfo.filename,
     external_attr |-> zinfo.external_attr,
     compress_type |-> compress_type,
     data |-> data]

\* the with block is left and the archive stays open (a faulty variant, to
\* test the properties against)
closeNot(zf) == zf

\* ZipFile.__exit__ calls ZipFile.close: the with block of line 251 is left,
\* by its end or by an exception, and the archive is finalized
close(zf) == [zf EXCEPT !.state = "closed"]

\* the recursion returns from every directory that has no entry left
RECURSIVE Unwind(_)
Unwind(stk) ==
    IF stk # <<>> /\ stk[Len(stk)].todo = {}
    THEN Unwind(SubSeq(stk, 1, Len(stk) - 1))
    ELSE stk

\* _add_to_zip(zipfile, file, ...) called with the recursion at stk; input is
\* the top-level input the call descends from (kept for the history only)
AddToZip(file, relative_to, input, stk) ==
    IF is_file(file)
    THEN \E filename \in {ArcPath(file, relative_to, root_folder)} :
         \E outcome \in {FileOutcome(filename, exclude, exclude_dotfiles)} :
            IF file \in unreadable
            THEN \* line 281: file.read_bytes() raises
                 /\ pc' = "error"
                 /\ raised' = <<[type |-> "PermissionError", file |-> file,
                                 filename |-> filename]>>
                 /\ stack' = <<>>
                 /\ zipfile' = close(zipfile)
                 /\ log' = log
            ELSE IF outcome = "raise"
            THEN \* line 295: filename.match(pattern) raises
                 /\ pc' = "error"
                 /\ raised' = <<[type |-> "ValueError", file |-> file,
                                 filename |-> filename]>>
                 /\ stack' = <<>>
                 /\ zipfile' = close(zipfile)
                 /\ log' = log
            ELSE /\ pc' = pc
                 /\ raised' = raised
                 /\ stack' = Unwind(stk)
                 /\ log' = log \cup {[file |-> file, input |-> input,
                                      filename |-> filename,
                                      written |-> outcome = "add"]}
                 /\ zipfile' =
                      IF outcome = "add"
                      THEN [zipfile EXCEPT
                              !.entries = @ (+) SetToBag({PathStr(filename)}),
                              !.infolist = @ (+) SetToBag({
                                  writestr(from_file(file, PathStr(filename)),
                                           read_bytes(file), compression)})]
                      ELSE zipfile
    ELSE /\ pc' = pc
         /\ raised' = raised
         /\ log' = log
         /\ zipfile' = zipfile
         /\ stack' = IF is_dir(file)
                     THEN Unwind(Append(stk, [relative_to |-> relative_to,
                                              input |-> input,
                                              todo |-> iterdir(file)]))
                     ELSE Unwind(stk)

(***************************************************************************)
(* zip_files                                                               *)
(***************************************************************************)

MaxInputs == 2

\* the top-level inputs a build may be given
InputPaths ==
    { <<n_B_txt>>, <<n_gitignore>>, <<n_A>>, <<n_A, n_X>>, <<n_p>>, <<n_q>>,
      <<n_p, n_gitignore>> }

\* the values of --exclude a build may be given
ExcludeArgs ==
    { <<>>,
      << <<"*", ".", "t", "x", "t">>, <<"b", "/", "*", ".", "m", "d">> >> }

\* the values of --exclude-from a build may be given
ExcludeFromArgs ==
    { <<>>, << <<n_x_lst>> >>, << <<n_y_lst>> >>, << <<n_x_lst>>, <<n_A>> >> }

\* the values of root_folder: None, or a folder
RootFolders == { <<>>, << <<n_R>> >> }

Init ==
    /\ root_folder \in RootFolders
    /\ exclude_arg \in ExcludeArgs
    /\ exclude_from \in ExcludeFromArgs
    /\ exclude_dotfiles \in BOOLEAN
    /\ exclude_vcs \in BOOLEAN
    /\ exclude_git_ignores \in BOOLEAN
    /\ files \in UNION {[1..n -> InputPaths] : n \in 0..MaxInputs}
    /\ pc = "start"
    /\ exclude = <<>>
    /\ idx = 1
    /\ gi_todo = {}
    /\ stack = <<>>
    /\ zipfile = [state |-> "none", entries |-> EmptyBag, infolist |-> EmptyBag]
    /\ log = {}
    /\ warnings = 0
    /\ t_prefix = <<>>
    /\ t_pattern = <<>>
    /\ t_path = <<>>
    /\ t_regex = <<>>
    /\ t_pc = "idle"
    /\ t_keys = <<>>
    /\ cmd = "none"
    /\ argv = <<>>
    /\ args = <<>>
    /\ cli_pc = "idle"
    /\ message = <<>>
    /\ compression = "ZIP_DEFLATED"
    /\ unreadable = {}
    /\ vcs_excludes = _VCS_EXCLUDES
    /\ raised = <<>>

\* line 237: exclude = list(exclude)
CopyExclude ==
    /\ pc = "start"
    /\ exclude' = [n \in 1..Len(exclude_arg) |-> GlobPattern(exclude_arg[n])]
    /\ pc' = "exclude_from"
    /\ idx' = 1
    /\ UNCHANGED <<root_folder, exclude_arg, exclude_from, exclude_dotfiles,
                   exclude_vcs, exclude_git_ignores, files, gi_todo, stack,
                   zipfile, log, warnings, transVars, cliVars,
                   envVars, raised>>

\* the lines of the list file are appended to the sequence of the caller as
\* well, as they would be without the copy of line 237 (a faulty variant, to
\* test the properties against)
ReadExcludeFromNoCopy ==
    /\ pc = "exclude_from"
    /\ idx <= Len(exclude_from)
    /\ is_file(exclude_from[idx])
    /\ LET lines == splitlines(exclude_from[idx])
       IN /\ exclude' = exclude \o
                           [n \in 1..Len(lines) |-> GlobPattern(lines[n])]
          /\ exclude_arg' = exclude_arg \o lines
    /\ idx' = idx + 1
    /\ UNCHANGED <<root_folder, exclude_from, exclude_dotfiles,
                   exclude_vcs, exclude_git_ignores, files, pc, gi_todo, stack,
                   zipfile, log, warnings, transVars, cliVars,
                   envVars, raised>>

\* lines 238-241: one exclude-list file is read; open(file) raises for a
\* directory
ReadExcludeFrom ==
    /\ pc = "exclude_from"
    /\ idx <= Len(exclude_from)
    /\ IF is_file(exclude_from[idx])
       THEN /\ LET lines == splitlines(exclude_from[idx])
               IN exclude' = exclude \o
                               [n \in 1..Len(lines) |-> GlobPattern(lines[n])]
            /\ idx' = idx + 1
            /\ UNCHANGED <<pc, raised>>
       ELSE /\ pc' = "error"
            /\ raised' = <<[type |-> "IsADirectoryError",
                            file |-> exclude_from[idx], filename |-> <<>>]>>
            /\ UNCHANGED <<exclude, idx>>
    /\ UNCHANGED <<root_folder, exclude_arg, exclude_from, exclude_dotfiles,
                   exclude_vcs, exclude_git_ignores, files, gi_todo, stack,
                   zipfile, log, warnings, transVars, cliVars, envVars>>

\* the VCS patterns replace the patterns collected so far instead of being
\* appended to them (a faulty variant, to test the properties against)
AddVcsExcludesOverwrite ==
    /\ pc = "exclude_from"
    /\ idx > Len(exclude_from)
    /\ exclude' = IF exclude_vcs
                  THEN [n \in 1..Len(vcs_excludes) |->
                           GlobPattern(vcs_excludes[n])]
                  ELSE exclude
    /\ pc' = "git_ignores"
    /\ idx' = IF exclude_git_ignores THEN 1 ELSE Len(files) + 1
    /\ UNCHANGED <<root_folder, exclude_arg, exclude_from, exclude_dotfiles,
                   exclude_vcs, exclude_git_ignores, files, gi_todo, stack,
                   zipfile, log, warnings, transVars, cliVars,
                   envVars, raised>>

\* lines 242-243: the VCS patterns are appended
AddVcsExcludes ==
    /\ pc = "exclude_from"
    /\ idx > Len(exclude_from)
    /\ exclude' = IF exclude_vcs
                  THEN exclude \o [n \in 1..Len(vcs_excludes) |->
                                      GlobPattern(vcs_excludes[n])]
                  ELSE exclude
    /\ pc' = "git_ignores"
    /\ idx' = IF exclude_git_ignores THEN 1 ELSE Len(files) + 1
    /\ UNCHANGED <<root_folder, exclude_arg, exclude_from, exclude_dotfiles,
                   exclude_vcs, exclude_git_ignores, files, gi_todo, stack,
                   zipfile, log, warnings, transVars, cliVars,
                   envVars, raised>>

\* lines 245-248 and 175-187: the .gitignore files of the next input are found
FindGitignores ==
    /\ pc = "git_ignores"
    /\ gi_todo = {}
    /\ idx <= Len(files)
    /\ gi_todo' = GitignoresOf(files[idx])
    /\ idx' = IF GitignoresOf(files[idx]) = {} THEN idx + 1 ELSE idx
    /\ UNCHANGED <<root_folder, exclude_arg, exclude_from, exclude_dotfiles,
                   exclude_vcs, exclude_git_ignores, files, pc, exclude, stack,
                   zipfile, log, warnings, transVars, cliVars,
                   envVars, raised>>

\* lines 180-186 and 143-172: one .gitignore is read; glob yields a directory's
\* .gitignore before those beneath the directory
ReadGitignore ==
    /\ pc = "git_ignores"
    /\ gi_todo # {}
    /\ \E gitignore \in gi_todo :
        /\ \A other \in gi_todo : ~(/\ other # gitignore
                                    /\ IsBeneath(gitignore, Parent(other)))
        /\ exclude' = exclude \o _get_single_gitignore_excludes(
                                    gitignore, Parent(files[idx]), root_folder)
        /\ warnings' = warnings + NegatedLines(readlines(gitignore))
        /\ gi_todo' = gi_todo \ {gitignore}
        /\ idx' = IF gi_todo = {gitignore} THEN idx + 1 ELSE idx
    /\ UNCHANGED <<root_folder, exclude_arg, exclude_from, exclude_dotfiles,
                   exclude_vcs, exclude_git_ignores, files, pc, stack, zipfile,
                   log, transVars, cliVars,
                   envVars, raised>>

\* line 251: the ZipFile is opened for writing
OpenZip ==
    /\ pc = "git_ignores"
    /\ gi_todo = {}
    /\ idx > Len(files)
    /\ zipfile' = [state |-> "open", entries |-> EmptyBag,
                   infolist |-> EmptyBag]
    /\ pc' = "walk"
    /\ idx' = 1
    /\ UNCHANGED <<root_folder, exclude_arg, exclude_from, exclude_dotfiles,
                   exclude_vcs, exclude_git_ignores, files, exclude, gi_todo,
                   stack, log, warnings, transVars, cliVars,
                   envVars, raised>>

\* lines 252-261: _add_to_zip is called on the next top-level input
AddInput ==
    /\ pc = "walk"
    /\ stack = <<>>
    /\ idx <= Len(files)
    /\ AddToZip(files[idx], Parent(files[idx]), files[idx], <<>>)
    /\ idx' = idx + 1
    /\ UNCHANGED <<root_folder, exclude_arg, exclude_from, exclude_dotfiles,
                   exclude_vcs, exclude_git_ignores, files, exclude, gi_todo,
                   warnings, transVars, cliVars,
                   envVars>>

\* lines 308-317: _add_to_zip is called on the next entry of the directory the
\* recursion is in
AddEntry ==
    /\ pc = "walk"
    /\ stack # <<>>
    /\ LET top == stack[Len(stack)]
       IN \E file_in_dir \in top.todo :
            AddToZip(file_in_dir, top.relative_to, top.input,
                     [stack EXCEPT ![Len(stack)].todo = @ \ {file_in_dir}])
    /\ UNCHANGED <<root_folder, exclude_arg, exclude_from, exclude_dotfiles,
                   exclude_vcs, exclude_git_ignores, files, exclude, idx,
                   gi_todo, warnings, transVars, cliVars,
                   envVars>>

\* line 261-262: the with block ends and the ZipFile is closed
CloseZip ==
    /\ pc = "walk"
    /\ stack = <<>>
    /\ idx > Len(files)
    /\ zipfile' = close(zipfile)
    /\ pc' = "done"
    /\ UNCHANGED <<root_folder, exclude_arg, exclude_from, exclude_dotfiles,
                   exclude_vcs, exclude_git_ignores, files, exclude, idx,
                   gi_todo, stack, log, warnings, transVars, cliVars,
                   envVars, raised>>

Next ==
    \/ CopyExclude
    \/ ReadExcludeFrom
    \/ AddVcsExcludes
    \/ FindGitignores
    \/ ReadGitignore
    \/ OpenZip
    \/ AddInput
    \/ AddEntry
    \/ CloseZip

Spec == Init /\ [][Next]_vars

(***************************************************************************)
(* The translator on its own: gitignore_to_regex is called on a prefix and *)
(* a pattern, and the compiled regex is matched against a path, as         *)
(* tests/test_gitignore.py does                                            *)
(***************************************************************************)

\* the table TESTS of tests/test_gitignore.py: prefix, pattern, path, matches
TESTS ==
    << <<<<"a">>, <<"*", ".", "p", "y", "c">>, <<"a", "/", "f", "i", "l", "e", ".", "p", "y", "c">>, TRUE>>,
       <<<<"a">>, <<"*", ".", "p", "y", "c">>, <<"b", "/", "f", "i", "l", "e", ".", "p", "y", "c">>, FALSE>>,
       <<<<"a">>, <<"b", "/", "*", ".", "p", "y", "c">>, <<"a", "/", "b", "/", "f", "i", "l", "e", ".", "p", "y", "c">>, TRUE>>,
       <<<<"a">>, <<"/", "b", "/", "*", ".", "p", "y", "c">>, <<"a", "/", "b", "/", "f", "i", "l", "e", ".", "p", "y", "c">>, TRUE>>,
       <<<<"a">>, <<"/", "c", "/", "*", ".", "p", "y", "c">>, <<"a", "/", "b", "/", "c", "/", "f", "i", "l", "e", ".", "p", "y", "c">>, FALSE>>,
       <<<<"a">>, <<"*", ".", "p", "y", "[", "c", "o", "d", "]">>, <<"a", "/", "b", "/", "f", "i", "l", "e", ".", "p", "y", "c">>, TRUE>>,
       <<<<"a">>, <<"*", ".", "p", "y", "[", "c", "o", "d", "]">>, <<"a", "/", "b", "/", "f", "i", "l", "e", ".", "p", "y", "d">>, TRUE>>,
       <<<<"a">>, <<"*", ".", "p", "y", "[", "c", "o", "d", "]">>, <<"a", "/", "b", "/", "f", "i", "l", "e", ".", "p", "y", "o">>, TRUE>>,
       <<<<"a", "/", "b">>, <<"*", ".", "p", "y", "c">>, <<"a", "/", "b", "/", "f", "i", "l", "e", ".", "p", "y", "c">>, TRUE>>,
       <<<<"r", "o", "o", "t">>, <<"d", "o", "c", "/", "f", "r", "o", "t", "z", "/">>, <<"r", "o", "o", "t", "/", "d", "o", "c", "/", "f", "r", "o", "t", "z", "/">>, TRUE>>,
       <<<<"r", "o", "o", "t">>, <<"d", "o", "c", "/", "f", "r", "o", "t", "z", "/">>, <<"r", "o", "o", "t", "/", "a", "/", "d", "o", "c", "/", "f", "r", "o", "t", "z", "/">>, FALSE>>,
       <<<<"r", "o", "o", "t">>, <<"f", "r", "o", "t", "z", "/">>, <<"r", "o", "o", "t", "/", "d", "o", "c", "/", "f", "r", "o", "t", "z", "/">>, TRUE>>,
       <<<<"r", "o", "o", "t">>, <<"f", "r", "o", "t", "z", "/">>, <<"r", "o", "o", "t", "/", "a", "/", "d", "o", "c", "/", "f", "r", "o", "t", "z", "/">>, TRUE>>,
       <<<<"r", "o", "o", "t">>, <<"v", "e", "n", "v", "/">>, <<"r", "o", "o", "t", "/", "v", "e", "n", "v", "/", "f", "i", "l", "e", ".", "t", "x", "t">>, TRUE>>,
       <<<<"r", "o", "o", "t">>, <<"v", "e", "n", "v", "/">>, <<"r", "o", "o", "t", "/", "v", "e", "n", "v", "/", "s", "u", "b", "/", "f", "i", "l", "e", ".", "t", "x", "t">>, TRUE>>,
       <<<<"r", "o", "o", "t">>, <<"v", "e", "n", "v", "/">>, <<"r", "o", "o", "t", "/", "s", "u", "b", "/", "v", "e", "n", "v", "/", "f", "i", "l", "e", ".", "t", "x", "t">>, TRUE>>,
       <<<<"r", "o", "o", "t">>, <<"/", "b", "u", "i", "l", "d">>, <<"r", "o", "o", "t", "/", "b", "u", "i", "l", "d">>, TRUE>>,
       <<<<"r", "o", "o", "t">>, <<"/", "b", "u", "i", "l", "d">>, <<"r", "o", "o", "t", "/", "b", "u", "i", "l", "d", "/">>, TRUE>>,
       <<<<"r", "o", "o", "t">>, <<"/", "b", "u", "i", "l", "d">>, <<"r", "o", "o", "t", "/", "b", "u", "i", "l", "d", "/", "f", "i", "l", "e", ".", "t", "x", "t">>, TRUE>>,
       <<<<"a">>, <<"*", "*", "/", "f", "o", "o">>, <<"a", "/", "b", "/", "f", "o", "o">>, TRUE>>,
       <<<<"a">>, <<"*", "*", "/", "f", "o", "o">>, <<"a", "/", "b", "/", "c", "/", "f", "o", "o">>, TRUE>>,
       <<<<"a">>, <<"*", "*", "/", "f", "o", "o", "/">>, <<"a", "/", "b", "/", "f", "o", "o", "/">>, TRUE>>,
       <<<<"r", "o", "o", "t">>, <<"a", "b", "c", "/", "*", "*">>, <<"r", "o", "o", "t", "/", "a", "b", "c", "/", "f", "i", "l", "e", ".", "t", "x", "t">>, TRUE>>,
       <<<<"r", "o", "o", "t">>, <<"a", "b", "c", "/", "*", "*">>, <<"r", "o", "o", "t", "/", "a", "b", "c", "/", "s", "u", "b", "/", "f", "i", "l", "e", ".", "t", "x", "t">>, TRUE>>,
       <<<<"r", "o", "o", "t">>, <<"a", "b", "c", "/", "*", "*">>, <<"r", "o", "o", "t", "/", "s", "u", "b", "/", "a", "b", "c", "/", "f", "i", "l", "e", ".", "t", "x", "t">>, FALSE>>,
       <<<<"r", "o", "o", "t">>, <<"a", "/", "*", "*", "/", "b">>, <<"r", "o", "o", "t", "/", "a", "/", "b">>, TRUE>>,
       <<<<"r", "o", "o", "t">>, <<"a", "/", "*", "*", "/", "b">>, <<"r", "o", "o", "t", "/", "a", "/", "x", "/", "b">>, TRUE>>,
       <<<<"r", "o", "o", "t">>, <<"a", "/", "*", "*", "/", "b">>, <<"r", "o", "o", "t", "/", "a", "/", "x", "/", "y", "/", "b">>, TRUE>>,
       <<<<"a">>, <<"?", ".", "p", "y", "c">>, <<"a", "/", "f", ".", "p", "y", "c">>, TRUE>>,
       <<<<"a">>, <<"?", ".", "p", "y", "c">>, <<"a", "/", "f", "i", "l", "e", ".", "p", "y", "c">>, FALSE>>,
       <<<<"a">>, <<"f", "[", "a", "-", "z", "A", "-", "Z", "]", ".", "p", "y", "c">>, <<"a", "/", "f", "a", ".", "p", "y", "c">>, TRUE>>,
       <<<<"a">>, <<"f", "[", "a", "-", "z", "A", "-", "Z", "]", ".", "p", "y", "c">>, <<"a", "/", "f", "1", ".", "p", "y", "c">>, FALSE>>,
       <<<<"a">>, <<"f", "[", "a", "-", "z", "A", "-", "Z", "]", ".", "p", "y", "c">>, <<"a", "/", "f", "i", "l", "e", ".", "p", "y", "c">>, FALSE>> >>

MaxPatLen == 3

MaxTailLen == 4

\* every string of at most n characters of the set alphabet
Strings(alphabet, n) ==
    UNION {[1..m -> alphabet] : m \in 0..n}

\* the patterns the translator is run on
TPatterns ==
    (Strings({"a", "b", "/", "*", "?"}, MaxPatLen) \ {<<>>})
    \cup { <<"*", "*", "/", "a">>,
           <<"a", "/", "*", "*">>,
           <<"a", "/", "*", "*", "/", "b">>,
           <<"a", "/", "*", "*", "/", "b", "/">>,
           <<"a", "/", "*", "*", "/", "b", "/", "*", "*">>,
           <<"a", "/", "b", "/">>,
           <<"/", "a", "/", "b">>,
           <<"/", "a", "b", "/">>,
           <<"a", "b", "/">>,
           <<" ", "a", "/", "\n">>,
           <<"[", "*", "]">>,
           <<"[", "a", "b", "]">>,
           <<"a", "[", "a", "/", "b", "]">>,
           <<"[", "]", "a", "]">>,
           <<"[", "b", "-", "a", "]">>,
           <<"a", "[", "b">> }

\* the prefix the generated runs use
TPrefix == <<"r">>

\* paths that are not beneath the prefix
TOutside ==
    { <<>>,
      <<"r">>,
      <<"a">>,
      <<"b", "/", "a">>,
      <<"r", "a">>,
      <<"r", "a", "/", "a">>,
      <<"r", "r", "/", "a">>,
      <<"a", "/", "r", "/", "a">>,
      <<"/", "r", "/", "a">> }

\* a prefix with a character that is special in a regex, and the paths its
\* runs use
TDotPrefix == <<"r", ".", "b">>

TDotPaths ==
    { <<"r", ".", "b", "/", "a">>,
      <<"r", "a", "b", "/", "a">>,
      <<"r", ".", "b">>,
      <<"r", ".", "b", "a">> }

\* the paths the compiled regex is matched against: beneath the prefix, and
\* outside it
TPaths ==
    TOutside \cup
    {TPrefix \o <<"/">> \o tail : tail \in
        Strings({"a", "b", "/"}, MaxTailLen)
        \cup { <<"a", "/", "b", "/", "a">>,
               <<"a", "/", "b", "/", "b", "/", "b">>,
               <<"a", "/", "a", "/", "b", "/", "a">>,
               <<"b", "/", "a", "/", "a", "b", "/", "a">>,
               <<"b", "/", "b", "/", "a", "b">>,
               <<"a", "/", "b", "/", "a", "/", "b">>,
               <<"*">>,
               <<"[", "a", "]">>,
               <<"a", "[", "b">>,
               <<"a", "[", "a", "/", "b", "]">> }}

\* the runs of patterns with an embedded "/**/" and a final "/" or "/**"
TComposed ==
    { <<"r", "o", "o", "t">> } \X
    { <<"a", "/", "*", "*", "/", "b", "/">>,
      <<"a", "/", "*", "*", "/", "b", "/", "*", "*">>,
      <<"a", "/", "*", "*", "/", "b">> } \X
    { <<"r", "o", "o", "t", "/", "a", "/", "b", "/",
        "f", "i", "l", "e", ".", "t", "x", "t">>,
      <<"r", "o", "o", "t", "/", "a", "/", "x", "/", "b", "/",
        "f", "i", "l", "e", ".", "t", "x", "t">> }

\* the runs: (prefix, pattern, path)
TInputs ==
    {<<TESTS[n][1], TESTS[n][2], TESTS[n][3]>> : n \in 1..Len(TESTS)}
    \cup ({TPrefix} \X TPatterns \X TPaths)
    \cup ({TDotPrefix} \X {<<"a">>, <<"*">>, <<"*", "*">>} \X TDotPaths)
    \cup TComposed

TInit ==
    /\ \E run \in TInputs :
        /\ t_prefix = run[1]
        /\ t_pattern = run[2]
        /\ t_path = run[3]
    /\ t_regex = <<>>
    /\ t_pc = "call"
    /\ t_keys = <<>>
    /\ root_folder = <<>>
    /\ exclude_arg = <<>>
    /\ exclude_from = <<>>
    /\ exclude_dotfiles = FALSE
    /\ exclude_vcs = FALSE
    /\ exclude_git_ignores = FALSE
    /\ files = <<>>
    /\ pc = "idle"
    /\ exclude = <<>>
    /\ idx = 1
    /\ gi_todo = {}
    /\ stack = <<>>
    /\ zipfile = [state |-> "none", entries |-> EmptyBag, infolist |-> EmptyBag]
    /\ log = {}
    /\ warnings = 0
    /\ cmd = "none"
    /\ argv = <<>>
    /\ args = <<>>
    /\ cli_pc = "idle"
    /\ message = <<>>
    /\ compression = "unset"
    /\ unreadable = {}
    /\ vcs_excludes = _VCS_EXCLUDES
    /\ raised = <<>>

\* regex = gitignore_to_regex(prefix, pattern); rx = re.compile(regex)
Translate ==
    /\ t_pc = "call"
    /\ t_regex' = gitignore_to_regex(t_prefix, t_pattern)
    /\ t_pc' = IF RxCompiles(t_regex') THEN "compiled" ELSE "invalid"
    /\ UNCHANGED <<t_prefix, t_pattern, t_path, t_keys, buildVars, cliVars>>

\* match = rx.match(path)
Match ==
    /\ t_pc = "compiled"
    /\ t_pc' = IF RxMatch(t_regex, t_path) THEN "matched" ELSE "nomatch"
    /\ UNCHANGED <<t_prefix, t_pattern, t_path, t_regex, t_keys, buildVars,
                   cliVars>>

TNext ==
    \/ Translate
    \/ Match

TranslateSpec == TInit /\ [][TNext]_vars

(***************************************************************************)
(* The translator with the draw of the placeholder keys: random.choices    *)
(* may return any key, the one of an earlier draw included.                *)
(***************************************************************************)

\* the number of different keys a draw may return
NKeys == 3

\* the number of draws of a call
MaxDraws == 3

\* the patterns of the runs: those that need at most MaxDraws keys
KPatterns ==
    {pattern \in Strings({"a", "/", "*", "?"}, MaxPatLen) \ {<<>>} :
        Len(GlobExprs(Normalize(pattern))) <= MaxDraws}

\* the paths of the runs
KPaths == {TPrefix \o <<"/">> \o tail :
              tail \in Strings({"a", "b", "/"}, 3) \ {<<>>}}

KInit ==
    /\ t_prefix = TPrefix
    /\ t_pattern \in KPatterns
    /\ t_path \in KPaths
    /\ t_regex = <<>>
    /\ t_pc = "draw"
    /\ t_keys = <<>>
    /\ root_folder = <<>>
    /\ exclude_arg = <<>>
    /\ exclude_from = <<>>
    /\ exclude_dotfiles = FALSE
    /\ exclude_vcs = FALSE
    /\ exclude_git_ignores = FALSE
    /\ files = <<>>
    /\ pc = "idle"
    /\ exclude = <<>>
    /\ idx = 1
    /\ gi_todo = {}
    /\ stack = <<>>
    /\ zipfile = [state |-> "none", entries |-> EmptyBag, infolist |-> EmptyBag]
    /\ log = {}
    /\ warnings = 0
    /\ cmd = "none"
    /\ argv = <<>>
    /\ args = <<>>
    /\ cli_pc = "idle"
    /\ message = <<>>
    /\ compression = "unset"
    /\ unreadable = {}
    /\ vcs_excludes = _VCS_EXCLUDES
    /\ raised = <<>>

\* regex = gitignore_to_regex(prefix, pattern), with the keys it draws;
\* rx = re.compile(regex)
TranslateKeyed ==
    /\ t_pc = "draw"
    /\ \E keys \in [1..Len(GlobExprs(Normalize(t_pattern))) -> 1..NKeys] :
        /\ t_keys' = keys
        /\ t_regex' = gitignore_to_regex_keyed(t_prefix, t_pattern, keys)
        /\ t_pc' = IF RxCompiles(gitignore_to_regex_keyed(t_prefix, t_pattern,
                                                         keys))
                   THEN "compiled"
                   ELSE "invalid"
    /\ UNCHANGED <<t_prefix, t_pattern, t_path, buildVars, cliVars>>

KNext ==
    \/ TranslateKeyed
    \/ Match

KeySpec == KInit /\ [][KNext]_vars

(***************************************************************************)
(* The command line (src/src/zip_files/zip_files.py, zip_folder.py and     *)
(* click_extensions.py): the options are parsed, the root folder and the   *)
(* inputs are resolved and the backend is called.                          *)
(***************************************************************************)

\* the names click gives the options (the parameter names of the commands)
o_auto_root == <<"a", "u", "t", "o", "_", "r", "o", "o", "t">>

o_root_folder == <<"r", "o", "o", "t", "_", "f", "o", "l", "d", "e", "r">>

o_outfile == <<"o", "u", "t", "f", "i", "l", "e">>

o_compression == <<"c", "o", "m", "p", "r", "e", "s", "s", "i", "o", "n">>

\* the keys of _COMPRESSION
_COMPRESSION ==
    { <<"s", "t", "o", "r", "e", "d">>,
      <<"d", "e", "f", "l", "a", "t", "e", "d">>,
      <<"b", "z", "i", "p", "2">>,
      <<"l", "z", "m", "a">> }

\* str.lower, on the letters that occur
LowerChar(c) ==
    CASE c = "S" -> "s" [] c = "T" -> "t" [] c = "O" -> "o" [] c = "R" -> "r"
      [] c = "E" -> "e" [] c = "D" -> "d" [] c = "Z" -> "z" [] c = "I" -> "i"
      [] c = "P" -> "p" [] OTHER -> c

Lower(s) == [n \in 1..Len(s) |-> LowerChar(s[n])]

\* DependsOn._fmt_opt: 'auto_root' -> '--auto-root'
_fmt_opt(name) == <<"-", "-">> \o ReplaceAll(name, <<"_">>, "-")

m_requires == <<" ", "r", "e", "q", "u", "i", "r", "e", "s", " ">>

m_incompatible ==
    <<" ", "i", "s", " ", "i", "n", "c", "o", "m", "p", "a", "t", "i", "b",
      "l", "e", " ", "w", "i", "t", "h", " ">>

m_invalid_value ==
    <<"I", "n", "v", "a", "l", "i", "d", " ", "v", "a", "l", "u", "e">>

\* the names of the options given on the command line: the keys of click's
\* opts
Opts(av) == {av[n].name : n \in 1..Len(av)}

\* the value given to the option name; <<>> for an option that is not given
OptValue(av, name) ==
    IF name \in Opts(av)
    THEN av[CHOOSE n \in 1..Len(av) : av[n].name = name].value
    ELSE <<>>

\* the dependency is looked for among the options given before the option
\* only (a faulty variant, to test the properties against)
DependsOnErrorBefore(name, depends_on, incompatible_with, av) ==
    IF name \in Opts(av)
    THEN LET at == CHOOSE n \in 1..Len(av) : av[n].name = name
             before == Opts(SubSeq(av, 1, at - 1))
             hits == SelectSeq(incompatible_with, LAMBDA o : o \in before)
         IN IF depends_on \notin before
            THEN _fmt_opt(name) \o m_requires \o _fmt_opt(depends_on)
            ELSE IF hits # <<>>
            THEN _fmt_opt(name) \o m_incompatible \o _fmt_opt(hits[1])
            ELSE <<>>
    ELSE <<>>

\* DependsOn.handle_parse_result: the message of the UsageError it raises for
\* the options av of the command line, <<>> if it raises none
DependsOnError(name, depends_on, incompatible_with, av) ==
    IF name \in Opts(av)
    THEN LET hits == SelectSeq(incompatible_with, LAMBDA o : o \in Opts(av))
         IN IF depends_on \notin Opts(av)
            THEN _fmt_opt(name) \o m_requires \o _fmt_opt(depends_on)
            ELSE IF hits # <<>>
            THEN _fmt_opt(name) \o m_incompatible \o _fmt_opt(hits[1])
            ELSE <<>>
    ELSE <<>>

\* the error of the n-th option given, <<>> if it is accepted: --compression
\* is a click.Choice of the keys of _COMPRESSION that ignores the case,
\* --auto-root is a DependsOn option
ParamError(av, n) ==
    IF av[n].name = o_compression
    THEN IF Lower(av[n].value) \in _COMPRESSION THEN <<>> ELSE m_invalid_value
    ELSE IF av[n].name = o_auto_root
    THEN DependsOnError(o_auto_root, o_outfile, <<o_root_folder>>, av)
    ELSE <<>>

\* the parameters are processed in the order they are given in: the first
\* error ends the parsing
RECURSIVE FirstError(_, _)
FirstError(av, n) ==
    IF n > Len(av) THEN <<>>
    ELSE IF ParamError(av, n) # <<>> THEN ParamError(av, n)
    ELSE FirstError(av, n + 1)

\* Path(outfile).stem, as the root folder it becomes
OutfileStem(av) == << <<Stem(Name(ParseParts(OptValue(av, o_outfile))))>> >>

\* zip-folder keeps the base name of FOLDER whatever --auto-root says (a
\* faulty variant, to test the properties against)
ZipFolderRootNoAuto(av, folder) ==
    IF o_root_folder \notin Opts(av)
    THEN << <<Name(folder)>> >>
    ELSE <<ParseParts(OptValue(av, o_root_folder))>>

\* zip_folder.py, lines 101-104: the root folder zip-folder passes on
ZipFolderRoot(av, folder) ==
    IF o_root_folder \notin Opts(av)
    THEN IF o_auto_root \in Opts(av)
         THEN OutfileStem(av)
         ELSE << <<Name(folder)>> >>
    ELSE <<ParseParts(OptValue(av, o_root_folder))>>

\* zip_files.py, lines 140-141: the root folder zip-files passes on
ZipFilesRoot(av) ==
    IF o_auto_root \in Opts(av)
    THEN OutfileStem(av)
    ELSE IF o_root_folder \in Opts(av)
    THEN <<ParseParts(OptValue(av, o_root_folder))>>
    ELSE <<>>

\* the orders the entries of a directory may be listed in
Orderings(S) ==
    {f \in [1..Cardinality(S) -> S] :
        \A j, k \in 1..Cardinality(S) : j # k => f[j] # f[k]}

MaxOpts == 3

s_out_archive_zip ==
    <<"o", "u", "t", "/", "a", "r", "c", "h", "i", "v", "e", ".", "z", "i", "p">>

n_archive == <<"a", "r", "c", "h", "i", "v", "e">>

\* the options a command line may hold
CliOptions ==
    { [name |-> o_auto_root, value |-> <<>>],
      [name |-> o_root_folder, value |-> n_R],
      [name |-> o_outfile, value |-> s_out_archive_zip],
      [name |-> o_compression, value |-> <<"S", "t", "o", "r", "e", "d">>],
      [name |-> o_compression, value |-> <<"z", "i", "p">>] }

\* the command lines: up to MaxOpts options, none given twice, in any order
CmdLines ==
    {av \in UNION {[1..n -> CliOptions] : n \in 0..MaxOpts} :
        \A j, k \in 1..Len(av) : j # k => av[j].name # av[k].name}

\* the FILES of zip-files and the FOLDER of zip-folder
CliFiles == { <<>>, << <<n_B_txt>> >>, << <<n_A>> >>, << <<n_gitignore>>, <<n_B_txt>> >> }

CliFolders == { << <<n_A>> >>, << <<n_p, n_b>> >> }

\* the values of --exclude on the command line: none, or an empty pattern
CliExcludeArgs == { <<>>, << <<>> >> }

CliExcludeFromArgs == { <<>>, << <<n_x_lst>> >> }

\* the files that cannot be read: none, or a file inside a directory
CliUnreadable == { {}, {<<n_A, n_X>>} }

\* _COMPRESSION[compression.lower()]: the zipfile constant of a key
CompressionMethod(key) ==
    CASE key = <<"s", "t", "o", "r", "e", "d">> -> "ZIP_STORED"
      [] key = <<"d", "e", "f", "l", "a", "t", "e", "d">> -> "ZIP_DEFLATED"
      [] key = <<"b", "z", "i", "p", "2">> -> "ZIP_BZIP2"
      [] key = <<"l", "z", "m", "a">> -> "ZIP_LZMA"

\* the compression the command passes on; --compression defaults to
\* 'deflated'
CompressionOption(av) ==
    IF o_compression \in Opts(av)
    THEN CompressionMethod(Lower(OptValue(av, o_compression)))
    ELSE CompressionMethod(<<"d", "e", "f", "l", "a", "t", "e", "d">>)

CliInit ==
    /\ cmd \in {"zip-files", "zip-folder"}
    /\ argv \in CmdLines
    /\ args \in IF cmd = "zip-files" THEN CliFiles ELSE CliFolders
    /\ cli_pc = "parse"
    /\ message = <<>>
    /\ compression = "unset"
    /\ unreadable \in CliUnreadable
    /\ vcs_excludes = _VCS_EXCLUDES
    /\ raised = <<>>
    /\ exclude_arg \in CliExcludeArgs
    /\ exclude_from \in CliExcludeFromArgs
    /\ exclude_dotfiles = FALSE
    /\ exclude_vcs = FALSE
    /\ exclude_git_ignores \in BOOLEAN
    /\ root_folder = <<>>
    /\ files = <<>>
    /\ pc = "cli"
    /\ exclude = <<>>
    /\ idx = 1
    /\ gi_todo = {}
    /\ stack = <<>>
    /\ zipfile = [state |-> "none", entries |-> EmptyBag, infolist |-> EmptyBag]
    /\ log = {}
    /\ warnings = 0
    /\ t_prefix = <<>>
    /\ t_pattern = <<>>
    /\ t_path = <<>>
    /\ t_regex = <<>>
    /\ t_pc = "idle"
    /\ t_keys = <<>>

\* click parses the command line and calls handle_parse_result of every
\* parameter; a UsageError ends the command before its function is called
Parse ==
    /\ cli_pc = "parse"
    /\ message' = FirstError(argv, 1)
    /\ cli_pc' = IF FirstError(argv, 1) = <<>> THEN "parsed" ELSE "usage_error"
    /\ UNCHANGED <<cmd, argv, args, buildVars, transVars>>

\* the function of the command: zip_files.py lines 137-153, zip_folder.py
\* lines 98-116. The inputs and the root folder are resolved and the backend
\* is called.
Invoke ==
    /\ cli_pc = "parsed"
    /\ IF cmd = "zip-files"
       THEN /\ files' = args
            /\ root_folder' = ZipFilesRoot(argv)
       ELSE /\ files' \in Orderings(iterdir(args[1]))
            /\ root_folder' = ZipFolderRoot(argv, args[1])
    /\ pc' = "start"
    /\ cli_pc' = "invoked"
    /\ compression' = CompressionOption(argv)
    /\ UNCHANGED <<cmd, argv, args, message, exclude_arg, exclude_from,
                   exclude_dotfiles, exclude_vcs, exclude_git_ignores, exclude,
                   idx, gi_todo, stack, zipfile, log, warnings, transVars,
                   unreadable, vcs_excludes, raised>>

\* the exit status of the command: 2 for a usage error, 1 for an exception
\* that is not caught, 0 otherwise
ExitCode ==
    IF cli_pc = "usage_error" THEN 2
    ELSE IF pc = "error" THEN 1
    ELSE 0

CliNext ==
    \/ Parse
    \/ Invoke
    \/ CopyExclude
    \/ ReadExcludeFrom
    \/ AddVcsExcludes
    \/ FindGitignores
    \/ ReadGitignore
    \/ OpenZip
    \/ AddInput
    \/ AddEntry
    \/ CloseZip

CliSpec == CliInit /\ [][CliNext]_vars

(***************************************************************************)
(* Properties of a build (specification Spec)                              *)
(***************************************************************************)

\* the root folder as a path: no component when none is set
RootPath == IF root_folder = <<>> THEN <<>> ELSE root_folder[1]

\* the base name of the visited file starts with a dot
HasDotName(r) == StartsWith(Name(r.file), <<".">>)

\* some pattern of the effective pattern list matches the in-archive name
AnyPatternMatches(filename) ==
    \E n \in 1..Len(exclude) : Matches(filename, exclude[n])

\* C1: a regular file visited by the traversal is written if and only if it
\* is not the case that exclude_dotfiles is set and its base name starts with
\* a dot, and no pattern of the list, at whatever position, matches its
\* in-archive name.
C1_WrittenIffNotExcluded ==
    \A r \in log :
        r.written <=> /\ ~(exclude_dotfiles /\ HasDotName(r))
                      /\ ~AnyPatternMatches(r.filename)

\* a file skipped because of a pattern that is not the first of the list,
\* next to a file that no pattern matches and that is written
C1_Witness ==
    /\ \E r \in log :
        /\ ~r.written
        /\ ~(exclude_dotfiles /\ HasDotName(r))
        /\ Len(exclude) > 1
        /\ ~Matches(r.filename, exclude[1])
    /\ \E r \in log : r.written /\ exclude # <<>>

\* C2: the in-archive name of a visited file is root_folder / p, or p without
\* a root folder, where p is the path of the file relative to the parent of
\* the top-level input it was reached from; what is written is a member of
\* the archive under that name and the archive has no other member. Inputs
\* A/X and B.txt with root folder R and no exclusion give exactly R/X and
\* R/B.txt.
C2_ArchiveNames ==
    /\ \A r \in log :
        /\ r.filename =
              RootPath \o SubSeq(r.file, Len(r.input), Len(r.file))
        /\ r.written => BagIn(PathStr(r.filename), zipfile.entries)
    /\ \A e \in BagToSet(zipfile.entries) :
        \E r \in log : r.written /\ PathStr(r.filename) = e
    /\ ( /\ pc = "done"
         /\ files \in { << <<n_A, n_X>>, <<n_B_txt>> >>,
                        << <<n_B_txt>>, <<n_A, n_X>> >> }
         /\ root_folder = << <<n_R>> >>
         /\ exclude = <<>> )
       => zipfile.entries = SetToBag({ n_R \o <<"/">> \o n_X,
                                        n_R \o <<"/">> \o n_B_txt })

\* a file two levels beneath a directory input is written under a root folder
C2_Witness ==
    \E r \in log :
        /\ r.written
        /\ root_folder # <<>>
        /\ Len(r.file) > Len(r.input) + 1
        /\ BagIn(PathStr(r.filename), zipfile.entries)

\* the directories and the files of version-control metadata
VcsDirNames ==
    { <<".", "g", "i", "t">>, <<".", "s", "v", "n">>, <<".", "h", "g">>,
      <<".", "b", "z", "r">>, <<"_", "d", "a", "r", "c", "s">>,
      <<"C", "V", "S">>, <<"R", "C", "S">>, <<"S", "C", "C", "S">> }

VcsFileNames ==
    { <<".", "g", "i", "t", "i", "g", "n", "o", "r", "e">>,
      <<".", "g", "i", "t", "m", "o", "d", "u", "l", "e", "s">>,
      <<".", "g", "i", "t", "a", "t", "t", "r", "i", "b", "u", "t", "e", "s">>,
      <<".", "h", "g", "i", "g", "n", "o", "r", "e">>,
      <<".", "b", "z", "r", "i", "g", "n", "o", "r", "e">> }

\* the file lies at some depth beneath a metadata directory, or is a metadata
\* file
IsVcsMetadata(path) ==
    \/ \E n \in 1..(Len(path) - 1) : path[n] \in VcsDirNames
    \/ Name(path) \in VcsFileNames

\* C3: with VCS exclusion enabled no version-control metadata file is
\* written: no file at any depth beneath a directory named .git, .svn, .hg,
\* .bzr, _darcs, CVS, RCS or SCCS and no file named .gitignore, .gitmodules,
\* .gitattributes, .hgignore or .bzrignore. The build violates this.
C3_NoVcsMetadataWritten ==
    exclude_vcs => \A r \in log : r.written => ~IsVcsMetadata(r.file)

\* the visited files that were not written
Skipped == {r \in log : ~r.written}

\* the patterns of each exclusion source, from the arguments of the build
\* alone: --exclude, the lines of the --exclude-from files, the VCS patterns,
\* and the patterns of every .gitignore at or beneath an input
ExplicitSource ==
    {GlobPattern(exclude_arg[n]) : n \in 1..Len(exclude_arg)}

ListSource ==
    UNION {{GlobPattern(splitlines(exclude_from[k])[n]) :
                n \in 1..Len(splitlines(exclude_from[k]))} :
           k \in 1..Len(exclude_from)}

VcsSource ==
    IF exclude_vcs
    THEN {GlobPattern(_VCS_EXCLUDES[n]) : n \in 1..Len(_VCS_EXCLUDES)}
    ELSE {}

GitignoreSource ==
    IF exclude_git_ignores
    THEN UNION {UNION {LET rxs == _get_single_gitignore_excludes(
                                      g, Parent(files[k]), root_folder)
                       IN {rxs[n] : n \in 1..Len(rxs)} :
                       g \in GitignoresOf(files[k])} :
                k \in 1..Len(files)}
    ELSE {}

\* the visited files a source excludes when it is the only one enabled
ExcludedAlone(source) ==
    {r \in log : \E pattern \in source : Matches(r.filename, pattern)}

\* the visited files the dotfile option excludes
DotExcluded == {r \in log : exclude_dotfiles /\ HasDotName(r)}

\* C4: the exclusion sources compose as a union: the files excluded by a
\* build are those that the explicit patterns, the exclude-list files, the
\* VCS patterns or the gitignore patterns exclude when enabled alone (next to
\* those the dotfile option excludes), so no source brings back a file that
\* another one excluded.
C4_ExclusionIsUnion ==
    Skipped = DotExcluded
              \cup ExcludedAlone(ExplicitSource)
              \cup ExcludedAlone(ListSource)
              \cup ExcludedAlone(VcsSource)
              \cup ExcludedAlone(GitignoreSource)

\* a finished build with the four sources enabled, each of which excludes a
\* file that the three others leave in
C4_Witness ==
    /\ pc = "done"
    /\ ~exclude_dotfiles
    /\ \A source \in {ExplicitSource, ListSource, VcsSource, GitignoreSource} :
        \E r \in ExcludedAlone(source) :
            \A other \in {ExplicitSource, ListSource, VcsSource,
                          GitignoreSource} \ {source} :
                r \notin ExcludedAlone(other)

\* C5: a file whose base name starts with a dot is excluded whenever dotfile
\* exclusion is requested, whatever the patterns; when it is off (the
\* default) the file is included exactly when no exclusion pattern matches
\* its in-archive name.
C5_DotfilePolicy ==
    \A r \in log :
        HasDotName(r) =>
            IF exclude_dotfiles
            THEN ~r.written
            ELSE r.written <=> ~AnyPatternMatches(r.filename)

\* C5 as stated: a dotfile is included when dotfile exclusion is off and
\* excluded only when it is on, whether or not a pattern matches it.
C5_DotfileRegardlessOfPatterns ==
    \A r \in log : HasDotName(r) => (r.written <=> ~exclude_dotfiles)

\* dotfile exclusion is off, and one dotfile is left out because a pattern
\* matches it while another one is written
C5_Witness ==
    /\ ~exclude_dotfiles
    /\ \E r \in log : HasDotName(r) /\ ~r.written
    /\ \E r \in log : HasDotName(r) /\ r.written

\* the glob pat, from position i on, matches the string s from position j to
\* its end, where "*" stands for a run of characters other than the path
\* separator and "?" for one such character
RECURSIVE GlobFrom(_, _, _, _)
GlobFrom(pat, i, s, j) ==
    IF i > Len(pat) THEN j > Len(s)
    ELSE IF pat[i] = "*"
    THEN \/ GlobFrom(pat, i + 1, s, j)
         \/ j <= Len(s) /\ s[j] # "/" /\ GlobFrom(pat, i, s, j + 1)
    ELSE /\ j <= Len(s)
         /\ \/ pat[i] = s[j]
            \/ pat[i] = "?" /\ s[j] # "/"
         /\ GlobFrom(pat, i + 1, s, j + 1)

\* the glob matches the name from the right: it matches what is left of the
\* name from the start of one of its components on
RightGlob(name, pat) ==
    \E b \in 1..Len(name) :
        /\ b = 1 \/ name[b - 1] = "/"
        /\ GlobFrom(pat, 1, name, b)

\* the patterns of the two examples
p_star_txt == <<"*", ".", "t", "x", "t">>

p_b_star_md == <<"b", "/", "*", ".", "m", "d">>

\* C6: a Glob-variant pattern is matched from the right against the
\* components of the in-archive name: a relative pattern of k components
\* (k >= 1) matches exactly when the name has at least k components and the
\* last k match the pattern's components one by one, "*" never spanning a
\* separator. So "*.txt" excludes the .txt files at every depth and "b/*.md"
\* a .md file exactly when its parent directory is named b.
C6_GlobMatchesFromTheRight ==
    \A r \in log :
        /\ \A n \in 1..Len(exclude) :
              (exclude[n].kind = "str" /\ ~MatchRaises(exclude[n].pattern)) =>
                 ( PathMatch(r.filename, exclude[n].pattern)
                   <=> RightGlob(PathStr(r.filename), exclude[n].pattern) )
        /\ ( /\ \E n \in 1..Len(exclude) : exclude[n] = GlobPattern(p_star_txt)
             /\ EndsWith(Name(r.filename), <<".", "t", "x", "t">>) )
           => ~r.written
        /\ ( /\ \E n \in 1..Len(exclude) :
                    exclude[n] = GlobPattern(p_b_star_md)
             /\ EndsWith(Name(r.filename), <<".", "m", "d">>)
             /\ Len(r.filename) > 1
             /\ Name(Parent(r.filename)) = n_b )
           => ~r.written
        /\ PathMatch(r.filename, p_b_star_md)
           <=> /\ EndsWith(Name(r.filename), <<".", "m", "d">>)
               /\ Len(Name(r.filename)) >= 3
               /\ Len(r.filename) > 1
               /\ Name(Parent(r.filename)) = n_b

\* with the two patterns as the only exclusions, the .md file in b and a
\* .txt file three levels deep are left out, and the .md file next to b is
\* written
C6_Witness ==
    /\ exclude = <<GlobPattern(p_star_txt), GlobPattern(p_b_star_md)>>
    /\ ~exclude_dotfiles
    /\ \E r \in log : r.file = <<n_p, n_b, n_5_md>> /\ ~r.written
    /\ \E r \in log : r.file = <<n_p, n_5_md>> /\ r.written
    /\ \E r \in log : r.file = <<n_q, n_hg, n_1_txt>> /\ ~r.written

\* the lines of a .gitignore that are a plain file name
PlainLines(gitignore) ==
    {FsText(gitignore)[n] : n \in
        {m \in 1..Len(FsText(gitignore)) :
            /\ FsText(gitignore)[m] # <<>>
            /\ \A k \in 1..Len(FsText(gitignore)[m]) :
                  FsText(gitignore)[m][k] \notin
                      {"/", "*", "?", "[", "]", "!", "#", "\\", " "}}}

\* C7: every .gitignore that gitignore processing discovers, beneath a
\* directory input or given as an input, with or without a root folder, has
\* its patterns anchored to its own in-archive directory: a line X excludes
\* the file archived as a sibling of that .gitignore under the name X. The
\* build violates this.
C7_GitignoreExcludesSibling ==
    exclude_git_ignores =>
        \A k \in 1..Len(files) :
            \A gitignore \in GitignoresOf(files[k]) :
                \A X \in PlainLines(gitignore) :
                    \A r \in log :
                        r.filename =
                            Parent(ArcPath(gitignore, Parent(files[k]),
                                           root_folder)) \o <<X>>
                        => ~r.written

(***************************************************************************)
(* Properties of the translator (specification TranslateSpec)              *)
(***************************************************************************)

\* the regex has been matched against the path
Decided == t_pc \in {"matched", "nomatch"}

Matched == t_pc = "matched"

\* the path lies beneath the prefix, and what follows the prefix is a
\* relative path without an empty component; a final slash marks a directory
BeneathPrefix ==
    /\ StartsWith(t_path, t_prefix \o <<"/">>)
    /\ LET tail == SubSeq(t_path, Len(t_prefix) + 2, Len(t_path))
       IN /\ ~StartsWith(tail, <<"/">>)
          /\ CountOccurrences(tail, <<"/", "/">>) = 0

\* the path below the prefix, as a string and as components
TailStr == SubSeq(t_path, Len(t_prefix) + 2, Len(t_path))

TailParts == ParseParts(TailStr)

TailIsDir == EndsWith(TailStr, <<"/">>)

\* a name without wildcard, separator, escape or blank
IsPlainName(c) ==
    /\ c # <<>>
    /\ \A k \in 1..Len(c) :
          c[k] \notin {"/", "*", "?", "[", "]", "!", "#", "\\", " ", "\n", "\t"}

\* the run is the n-th row of the table TESTS
IsTest(n) ==
    /\ t_prefix = TESTS[n][1]
    /\ t_pattern = TESTS[n][2]
    /\ t_path = TESTS[n][3]

\* the components of the pattern: names, or a lone "*" for any one name
PatParts == ParseParts(t_pattern)

\* a pattern without "**" whose components are names or "*"
IsDepthPattern ==
    /\ PatParts # <<>>
    /\ CountOccurrences(t_pattern, <<"/", "/">>) = 0
    /\ \A n \in 1..Len(PatParts) :
          PatParts[n] = <<"*">> \/ IsPlainName(PatParts[n])

\* the pattern has a leading or an embedded slash
IsAnchored == IndexFrom(SubSeq(t_pattern, 1, Len(t_pattern) - 1), "/", 1) # 0

\* the components of the path from the i-th on start with those of the
\* pattern, and a pattern with a final slash has found a directory
PartsMatchAt(i) ==
    /\ i + Len(PatParts) - 1 <= Len(TailParts)
    /\ \A m \in 1..Len(PatParts) :
          PatParts[m] = <<"*">> \/ TailParts[i + m - 1] = PatParts[m]
    /\ EndsWith(t_pattern, <<"/">>)
          => (i + Len(PatParts) - 1 < Len(TailParts) \/ TailIsDir)

\* the rows of TESTS on anchoring by depth
DepthTests == {1, 2, 3, 4, 5, 9, 10, 11, 12, 13, 17, 18, 19}

\* C8: gitignore_to_regex anchors by depth: a pattern with no slash other
\* than a final one matches a file or directory of that name at any depth
\* beneath the prefix, a pattern with a leading or embedded slash matches
\* relative to the prefix directory only; and the rows of TESTS on this
\* ("frotz/", "doc/frotz/", "/c/*.pyc", ...) come out as the table says.
C8_AnchoredByDepth ==
    Decided =>
        /\ (IsDepthPattern /\ BeneathPrefix) =>
              ( Matched <=> IF IsAnchored
                            THEN PartsMatchAt(1)
                            ELSE \E i \in 1..Len(TailParts) : PartsMatchAt(i) )
        /\ \A n \in DepthTests : IsTest(n) => (Matched <=> TESTS[n][4])

\* "frotz/" under the prefix root has matched root/a/doc/frotz/
C8_Witness ==
    /\ IsTest(13)
    /\ IsDepthPattern /\ BeneathPrefix /\ ~IsAnchored
    /\ Matched

\* the three "**" forms over plain names: "**/n", "n/**" and "n/**/m"
IsLeadingStars ==
    /\ StartsWith(t_pattern, <<"*", "*", "/">>)
    /\ IsPlainName(SubSeq(t_pattern, 4, Len(t_pattern)))

IsTrailingStars ==
    /\ EndsWith(t_pattern, <<"/", "*", "*">>)
    /\ IsPlainName(SubSeq(t_pattern, 1, Len(t_pattern) - 3))

IsEmbeddedStars ==
    /\ Len(PatParts) = 3
    /\ IsPlainName(PatParts[1])
    /\ PatParts[2] = <<"*", "*">>
    /\ IsPlainName(PatParts[3])
    /\ t_pattern = PatParts[1] \o <<"/", "*", "*", "/">> \o PatParts[3]

\* the rows of TESTS on "**"
StarsTests == {20, 21, 22, 23, 24, 25, 26, 27, 28}

\* C9: the three "**" forms are path-segment wildcards: "**/n" matches n
\* below zero or more leading segments, "n/**" matches everything inside the
\* directory n of the prefix, and "n/**/m" matches exactly the paths that
\* have n as first component and m as a later whole component, zero or more
\* whole segments lying between them; the rows of TESTS on "**" come out as
\* the table says. The translator violates this.
C9_DoubleStarSegments ==
    (Decided /\ BeneathPrefix) =>
        /\ IsLeadingStars =>
              ( Matched <=> \E i \in 1..Len(TailParts) :
                                TailParts[i] = PatParts[2] )
        /\ IsTrailingStars =>
              ( Matched <=> /\ TailParts # <<>>
                            /\ TailParts[1] = PatParts[1]
                            /\ (Len(TailParts) > 1 \/ TailIsDir) )
        /\ IsEmbeddedStars =>
              ( Matched <=> /\ TailParts # <<>>
                            /\ TailParts[1] = PatParts[1]
                            /\ \E i \in 2..Len(TailParts) :
                                  TailParts[i] = PatParts[3] )
        /\ \A n \in StarsTests : IsTest(n) => (Matched <=> TESTS[n][4])

\* the name of a directory pattern: the pattern without its final slash and
\* without a leading one
DirName ==
    IF StartsWith(t_pattern, <<"/">>)
    THEN SubSeq(t_pattern, 2, Len(t_pattern) - 1)
    ELSE SubSeq(t_pattern, 1, Len(t_pattern) - 1)

\* a pattern that ends with a slash and names a directory by plain names
IsDirPattern ==
    /\ EndsWith(t_pattern, <<"/">>)
    /\ Len(t_pattern) > 1
    /\ CountOccurrences(t_pattern, <<"/", "/">>) = 0
    /\ \A n \in 1..Len(ParseParts(DirName)) : IsPlainName(ParseParts(DirName)[n])
    /\ ParseParts(DirName) # <<>>

\* the path below the prefix runs through the directory: its name, followed
\* by a separator, starts at the first character, or for a pattern without
\* inner slash after any separator
BeneathDir ==
    \E b \in 1..Len(TailStr) :
        /\ b = 1 \/ (~IsAnchored /\ TailStr[b - 1] = "/")
        /\ OccursAt(TailStr, DirName \o <<"/">>, b)

\* the rows of TESTS on "venv/"
DirTests == {14, 15, 16}

\* C10: a pattern ending in a slash is a directory pattern: it matches
\* every path beneath a directory of that name (beneath the prefix at any
\* depth, or at the prefix itself for a pattern with an inner slash) and no
\* other path; so it does not match the path that ends with that name with
\* nothing after it, the name occurring as its last component only. "venv/"
\* under prefix root matches root/venv/file.txt, root/venv/sub/file.txt and
\* root/sub/venv/file.txt.
C10_DirectoryPattern ==
    Decided =>
        /\ (IsDirPattern /\ StartsWith(t_path, t_prefix \o <<"/">>)) =>
              /\ Matched <=> BeneathDir
              /\ TailStr = DirName => ~Matched
        /\ \A n \in DirTests : IsTest(n) => (Matched <=> TESTS[n][4])

\* "venv/" under the prefix root has matched root/sub/venv/file.txt
C10_Witness ==
    /\ IsTest(16)
    /\ IsDirPattern /\ BeneathDir
    /\ Matched

\* a pattern of names, "/", single "*" and "?": no "**", no empty component
IsWildPattern ==
    /\ PatParts # <<>>
    /\ CountOccurrences(t_pattern, <<"/", "/">>) = 0
    /\ CountOccurrences(t_pattern, <<"*", "*">>) = 0
    /\ \A k \in 1..Len(t_pattern) :
          t_pattern[k] \in {"/", "*", "?"} \/ IsPlainName(<<t_pattern[k]>>)

\* the pattern without a leading slash
WildCore ==
    IF StartsWith(t_pattern, <<"/">>) THEN Tail(t_pattern) ELSE t_pattern

\* pat, from position i on, matches s from position j on up to the end of a
\* component (or anything beyond a final slash of pat): "*" stands for one or
\* more characters other than the separator, "?" for exactly one
RECURSIVE WildFrom(_, _, _, _)
WildFrom(pat, i, s, j) ==
    IF i > Len(pat)
    THEN j > Len(s) \/ s[j] = "/" \/ pat[Len(pat)] = "/"
    ELSE /\ j <= Len(s)
         /\ IF pat[i] = "*"
            THEN /\ s[j] # "/"
                 /\ WildFrom(pat, i + 1, s, j + 1) \/ WildFrom(pat, i, s, j + 1)
            ELSE IF pat[i] = "?"
            THEN s[j] # "/" /\ WildFrom(pat, i + 1, s, j + 1)
            ELSE s[j] = pat[i] /\ WildFrom(pat, i + 1, s, j + 1)

\* the rows of TESTS on "*" and "?"
WildTests == {1, 2, 3, 4, 5, 9, 29, 30}

\* C11: a single "*" matches one or more characters none of which is the
\* path separator and "?" exactly one character that is not the separator,
\* so neither matches across a directory boundary: a pattern of names, "*"
\* and "?" matches a path exactly when it matches, wildcard by wildcard,
\* whole components of the path (from the prefix for a pattern with an inner
\* slash, from any component otherwise). "?.pyc" under prefix a matches
\* a/f.pyc and not a/file.pyc.
C11_SingleWildcards ==
    Decided =>
        /\ (IsWildPattern /\ BeneathPrefix) =>
              ( Matched <=>
                  \E b \in 1..Len(TailStr) :
                      /\ b = 1 \/ (~IsAnchored /\ TailStr[b - 1] = "/")
                      /\ WildFrom(WildCore, 1, TailStr, b) )
        /\ \A n \in WildTests : IsTest(n) => (Matched <=> TESTS[n][4])

\* "?.pyc" under prefix a has been matched against a/file.pyc and has not
\* matched
C11_Witness ==
    /\ IsTest(30)
    /\ IsWildPattern /\ BeneathPrefix
    /\ t_pc = "nomatch"

\* the bodies of the character classes of a regex, in order
RECURSIVE ClassBodies(_)
ClassBodies(rx) ==
    IF rx = <<>> THEN <<>>
    ELSE (IF Head(rx).t = "class" THEN <<Head(rx).c>> ELSE <<>>)
         \o ClassBodies(Tail(rx))

\* the bodies of the bracket expressions of a pattern, in order: from each
\* "[" to the next "]"
RECURSIVE BracketBodies(_)
BracketBodies(pattern) ==
    IF pattern = <<>> THEN <<>>
    ELSE IF Head(pattern) = "[" /\ \E k \in 2..Len(pattern) : pattern[k] = "]"
    THEN LET k == CHOOSE k \in 2..Len(pattern) :
                     /\ pattern[k] = "]"
                     /\ \A m \in 2..(k - 1) : pattern[m] # "]"
         IN <<SubSeq(pattern, 2, k - 1)>>
            \o BracketBodies(SubSeq(pattern, k + 1, Len(pattern)))
    ELSE BracketBodies(Tail(pattern))

\* the rows of TESTS on bracket expressions
BracketTests == {6, 7, 8, 31, 32, 33}

\* C12: every bracket expression of the pattern is passed through unmodified
\* as a character class of the regex and never escaped, whatever characters
\* it contains ("*", "?" and "/" included): the classes of the regex are the
\* bracket expressions of the pattern, in order. "f[a-zA-Z].pyc" under prefix
\* a matches a/fa.pyc and not a/f1.pyc or a/file.pyc. The translator
\* violates this.
C12_BracketsPassedThrough ==
    /\ t_pc \notin {"idle", "call"}
          => ClassBodies(t_regex) = BracketBodies(t_pattern)
    /\ Decided => \A n \in BracketTests : IsTest(n) => (Matched <=> TESTS[n][4])

\* gitignore's matching of a pattern against the path of one entry (no final
\* slash), as gitignore(5) states it: "**/" after a slash or at the start
\* stands for zero or more directories, a final "**" after a slash for
\* everything inside, any other "*" for zero or more characters other than
\* the slash, "?" for one such character
RECURSIVE GitWild(_, _, _, _)
GitWild(pat, i, s, j) ==
    IF i > Len(pat) THEN j > Len(s)
    ELSE IF /\ OccursAt(pat, <<"*", "*", "/">>, i)
            /\ (i = 1 \/ pat[i - 1] = "/")
    THEN \/ GitWild(pat, i + 3, s, j)
         \/ \E k \in j..Len(s) : s[k] = "/" /\ GitWild(pat, i + 3, s, k + 1)
    ELSE IF /\ OccursAt(pat, <<"*", "*">>, i)
            /\ i + 1 = Len(pat)
            /\ (i = 1 \/ pat[i - 1] = "/")
    THEN TRUE
    ELSE IF pat[i] = "*"
    THEN \/ GitWild(pat, i + 1, s, j)
         \/ j <= Len(s) /\ s[j] # "/" /\ GitWild(pat, i, s, j + 1)
    ELSE IF pat[i] = "?"
    THEN j <= Len(s) /\ s[j] # "/" /\ GitWild(pat, i + 1, s, j + 1)
    ELSE j <= Len(s) /\ s[j] = pat[i] /\ GitWild(pat, i + 1, s, j + 1)

\* a line of names, "/", "*" and "?" that is a pattern for gitignore
IsGitPattern ==
    /\ PatParts # <<>>
    /\ CountOccurrences(t_pattern, <<"/", "/">>) = 0
    /\ \A k \in 1..Len(t_pattern) :
          t_pattern[k] \in {"/", "*", "?"} \/ IsPlainName(<<t_pattern[k]>>)

\* the pattern without a leading and without a final slash
GitCore ==
    LET p1 == IF StartsWith(t_pattern, <<"/">>) THEN Tail(t_pattern)
              ELSE t_pattern
    IN IF EndsWith(p1, <<"/">>) THEN SubSeq(p1, 1, Len(p1) - 1) ELSE p1

\* the pattern matches the entry that the path below the prefix names with
\* its first e characters: its whole path for a pattern with a leading or
\* inner slash, its base name otherwise; a pattern with a final slash
\* matches directories only
GitMatchesEntry(e) ==
    LET entry == SubSeq(TailStr, 1, e)
        base == SubSeq(entry, LastIndex(entry, "/") + 1, e)
    IN /\ TailStr[e] # "/"
       /\ e = Len(TailStr) \/ TailStr[e + 1] = "/"
       /\ EndsWith(t_pattern, <<"/">>) => e < Len(TailStr)
       /\ IF IsAnchored
          THEN GitWild(GitCore, 1, entry, 1)
          ELSE GitWild(GitCore, 1, base, 1)

\* gitignore ignores the path: the line matches it or a directory above it
GitIgnores == \E e \in 1..Len(TailStr) : GitMatchesEntry(e)

\* C13: for every prefix, every line that is neither a comment nor negated
\* and every path, the regex that gitignore_to_regex returns is a valid
\* regular expression and matches the path if and only if gitignore, with
\* that line in the prefix directory, ignores the path (stated for the
\* lines of names, "/", "*" and "?" and for the paths of files). The
\* translator violates this.
C13_RegexIsGitignore ==
    /\ t_pc # "invalid"
    /\ (Decided /\ IsGitPattern /\ BeneathPrefix /\ ~TailIsDir)
          => (Matched <=> GitIgnores)

(***************************************************************************)
(* More properties of a build (specification Spec)                         *)
(***************************************************************************)

\* a line of a .gitignore that is a comment or blank, and one that is negated
IsCommentOrBlank(line) == StartsWith(line, <<"#">>) \/ Strip(line) = <<>>

IsNegated(line) == StartsWith(line, <<"!">>)

\* a line that is none of these
IsOrdinaryLine(line) == ~IsCommentOrBlank(line) /\ ~IsNegated(line)

LineSource ==
    UNION {UNION {LET lines == SelectSeq(readlines(g), IsOrdinaryLine)
                      prefix == PathStr(GitignorePrefix(g, Parent(files[k]),
                                                        root_folder))
                  IN {RegexPattern(gitignore_to_regex(prefix, lines[n])) :
                          n \in 1..Len(lines)} :
                  g \in GitignoresOf(files[k])} :
           k \in 1..Len(files)}

\* a pattern given with --exclude or in an exclude-list file, or a line of a
\* .gitignore, matches the in-archive name
NamedByPattern(filename) ==
    \E pattern \in ExplicitSource \cup ListSource \cup LineSource :
        Matches(filename, pattern)

RECURSIVE ListLines(_)
ListLines(k) ==
    IF k > Len(exclude_from) THEN <<>>
    ELSE SelectSeq(splitlines(exclude_from[k]), LAMBDA line : line # <<>>)
         \o ListLines(k + 1)

\* the pattern list a build has once the exclude-list files are read, if
\* blank lines are ignored: the explicit patterns, then one Glob pattern for
\* every non-empty line
ExplicitThenListed ==
    [n \in 1..Len(exclude_arg) |-> GlobPattern(exclude_arg[n])]
    \o [n \in 1..Len(ListLines(1)) |-> GlobPattern(ListLines(1)[n])]

\* the exclude-list files are read
ListsRead == pc \notin {"start", "exclude_from", "error"}

\* C16: once the exclude-list files are read the pattern list is the explicit
\* patterns followed by one Glob pattern for every non-empty line, verbatim
\* and in file order, blank lines being ignored; a blank line changes nothing
\* of the build: the build does not fail, and a visited file is written if and
\* only if it is not an excluded dotfile and no pattern of the list other
\* than a blank line matches its in-archive name.
C16_ListFileLines ==
    /\ pc # "error"
    /\ ListsRead =>
          /\ Len(exclude) >= Len(ExplicitThenListed)
          /\ SubSeq(exclude, 1, Len(ExplicitThenListed)) = ExplicitThenListed
    /\ \A r \in log :
          r.written <=>
             /\ ~(exclude_dotfiles /\ HasDotName(r))
             /\ ~\E n \in 1..Len(exclude) :
                    /\ exclude[n] # GlobPattern(<<>>)
                    /\ Matches(r.filename, exclude[n])

\* the part of C16 about the lines that are not blank: every non-empty line
\* of an exclude-list file is in the pattern list as one Glob pattern, after
\* the explicit patterns and in file order
C16_NonEmptyLinesKept ==
    ListsRead =>
       LET listed == SelectSeq(exclude, LAMBDA pattern :
                                            pattern # GlobPattern(<<>>))
       IN /\ Len(listed) >= Len(ExplicitThenListed)
          /\ SubSeq(listed, 1, Len(ExplicitThenListed)) = ExplicitThenListed

\* a build given the list file with a blank line fails with the archive open
C16_BlankLineFails ==
    /\ pc = "error"
    /\ exclude_from = << <<n_y_lst>> >>
    /\ GlobPattern(<<>>) \in {exclude[n] : n \in 1..Len(exclude)}

\* the regular files reachable from the inputs: an input that is a regular
\* file, and every regular file at any depth beneath an input
Reachable == {f \in FsFiles : \E k \in 1..Len(files) : IsBeneath(f, files[k])}

\* the members of the archive, with their number of copies
Members == zipfile.entries

\* the visited files that were written
Written == {r \in log : r.written}

\* the archive of a finished build holds the reachable files that are not
\* excluded, once each, and nothing that stands for a directory
ExactlyOnce ==
    /\ \A f \in Reachable : \E r \in log : r.file = f
    /\ \A r \in log : r.file \in Reachable
    /\ \A r \in log :
          r.written <=> /\ ~(exclude_dotfiles /\ HasDotName(r))
                        /\ ~AnyPatternMatches(r.filename)
    /\ \A r \in Written : CopiesIn(PathStr(r.filename), Members) = 1
    /\ \A e \in BagToSet(Members) :
          \E r \in Written : PathStr(r.filename) = e /\ is_file(r.file)
    /\ BagCardinality(Members) = Cardinality({r.file : r \in Written})

\* C17: for every sequence of inputs, the entries of the finished archive
\* are exactly the regular files reachable from the inputs that are not
\* excluded, each appearing exactly once, and no entry stands for a
\* directory.
C17_EntriesExactlyOnce == pc = "done" => ExactlyOnce

\* no input is given twice or lies beneath another one, and no two inputs
\* have the same base name
InputsDisjoint ==
    \A j, k \in 1..Len(files) :
       j # k => /\ ~IsBeneath(files[j], files[k])
                /\ Name(files[j]) # Name(files[k])

\* the part of C17 that holds: for inputs none of which is given twice or
\* lies beneath another one, with pairwise different base names
C17_DisjointInputsExactlyOnce ==
    (pc = "done" /\ InputsDisjoint) => ExactlyOnce

\* a finished build of a directory and a file, with a file left out and a
\* file written once
C17_DisjointWitness ==
    /\ pc = "done" /\ InputsDisjoint /\ Len(files) = 2
    /\ \E r \in log : ~r.written
    /\ \E r \in Written : Len(r.file) > 1 /\ CopiesIn(PathStr(r.filename), Members) = 1

\* a finished build whose archive holds the same member twice
C17_TwiceWitness ==
    /\ pc = "done"
    /\ \E e \in BagToSet(Members) : CopiesIn(e, Members) = 2

(***************************************************************************)
(* Properties of the command line (specification CliSpec)                  *)
(***************************************************************************)

\* the options of the command line
AutoRoot == o_auto_root \in Opts(argv)

HasOutfile == o_outfile \in Opts(argv)

HasRootFolder == o_root_folder \in Opts(argv)

\* the base name of a path given as a string, without directories and
\* without its extension
BaseName(s) ==
    LET base == SubSeq(s, LastIndex(s, "/") + 1, Len(s))
        dot == LastIndex(base, ".")
    IN IF dot > 1 THEN SubSeq(base, 1, dot - 1) ELSE base

\* the root folder as C18 resolves it: <<>> for none, else the folder
ResolvedRoot ==
    IF HasRootFolder THEN <<OptValue(argv, o_root_folder)>>
    ELSE IF AutoRoot THEN <<BaseName(OptValue(argv, o_outfile))>>
    ELSE IF cmd = "zip-folder" THEN <<Name(args[1])>>
    ELSE <<>>

\* the inputs the command passes on: the FILES, or the entries of FOLDER
InputsOf ==
    IF cmd = "zip-files" THEN {args[n] : n \in 1..Len(args)}
    ELSE iterdir(args[1])

\* C18: the root folder the backend is called with is the --root-folder
\* value when given; otherwise, with --auto-root, the base name of the
\* output file without path and extension (out/archive.zip gives archive);
\* otherwise the base name of FOLDER for zip-folder and none for zip-files.
\* Derived or explicit, it is put in front of every in-archive name.
C18_RootFolderResolution ==
    cli_pc = "invoked" =>
       /\ root_folder = [n \in 1..Len(ResolvedRoot) |-> <<ResolvedRoot[n]>>]
       /\ (AutoRoot /\ OptValue(argv, o_outfile) = s_out_archive_zip)
             => root_folder = << <<n_archive>> >>
       /\ {files[n] : n \in 1..Len(files)} = InputsOf
       /\ \A r \in log :
             /\ r.filename = ResolvedRoot
                             \o RelativeTo(r.file, Parent(r.input))
             /\ r.written => BagIn(PathStr(r.filename), zipfile.entries)

\* zip-folder with --auto-root and the output out/archive.zip has written a
\* file of FOLDER beneath archive/
C18_Witness ==
    /\ cmd = "zip-folder" /\ AutoRoot /\ pc = "done"
    /\ args = << <<n_p, n_b>> >>
    /\ BagIn(n_archive \o <<"/">> \o n_5_md, zipfile.entries)

\* zip-folder without --auto-root and --root-folder has written a file of
\* FOLDER beneath the base name of FOLDER, and zip-files has written a file
\* without a root folder
C18_DefaultWitness ==
    /\ pc = "done" /\ ~AutoRoot /\ ~HasRootFolder
    /\ \/ cmd = "zip-folder" /\ BagIn(n_A \o <<"/">> \o n_X, zipfile.entries)
       \/ cmd = "zip-files" /\ BagIn(n_B_txt, zipfile.entries)

\* the two messages
msg_requires_outfile ==
    <<"-", "-", "a", "u", "t", "o", "-", "r", "o", "o", "t", " ", "r", "e",
      "q", "u", "i", "r", "e", "s", " ", "-", "-", "o", "u", "t", "f", "i",
      "l", "e">>

msg_incompatible_root_folder ==
    <<"-", "-", "a", "u", "t", "o", "-", "r", "o", "o", "t", " ", "i", "s",
      " ", "i", "n", "c", "o", "m", "p", "a", "t", "i", "b", "l", "e", " ",
      "w", "i", "t", "h", " ", "-", "-", "r", "o", "o", "t", "-", "f", "o",
      "l", "d", "e", "r">>

\* the command was rejected before its function was called: nothing is
\* resolved, the backend is not called, nothing is read and the output is
\* not opened
Rejected ==
    /\ cli_pc = "usage_error"
    /\ ExitCode # 0
    /\ pc = "cli"
    /\ files = <<>>
    /\ exclude = <<>>
    /\ log = {}
    /\ zipfile = [state |-> "none", entries |-> EmptyBag, infolist |-> EmptyBag]

\* the value of --compression, if given, is one of the choices
CompressionValid ==
    o_compression \in Opts(argv)
       => Lower(OptValue(argv, o_compression)) \in _COMPRESSION

\* C19: both commands reject --auto-root without --outfile, with the message
\* '--auto-root requires --outfile', and --auto-root together with
\* --root-folder, with the message '--auto-root is incompatible with
\* --root-folder', in any order of the options: the command exits non-zero
\* before any traversal begins and before the output is opened. (When the
\* command line holds another error as well, the message is that of the
\* error met first.)
C19_AutoRootRejected ==
    cli_pc # "parse" =>
       /\ (AutoRoot /\ (~HasOutfile \/ HasRootFolder)) => Rejected
       /\ (AutoRoot /\ ~HasOutfile /\ CompressionValid)
             => message = msg_requires_outfile
       /\ (AutoRoot /\ HasOutfile /\ HasRootFolder /\ CompressionValid)
             => message = msg_incompatible_root_folder

\* --auto-root is rejected although --outfile is given before it and
\* --root-folder after it
C19_Witness ==
    /\ Rejected
    /\ cmd = "zip-folder"
    /\ message = msg_incompatible_root_folder
    /\ Len(argv) = 3
    /\ argv[1].name = o_outfile
    /\ argv[2].name = o_auto_root
    /\ argv[3].name = o_root_folder

\* --auto-root is rejected without --outfile, given last
C19_RequiresWitness ==
    /\ Rejected
    /\ cmd = "zip-files"
    /\ message = msg_requires_outfile
    /\ Len(argv) = 2
    /\ argv[2].name = o_auto_root

\* C20: every configuration error (an invalid combination of options, an
\* invalid compression, a malformed exclusion pattern) is detected before
\* any file I/O of the build: whenever the command exits non-zero, nothing
\* was read and the output was neither created nor modified.
C20_ErrorsBeforeIO ==
    ExitCode # 0 =>
       /\ log = {}
       /\ exclude = <<>>
       /\ zipfile.state = "none"

\* the part of C20 that holds: an invalid combination of options and an
\* invalid compression are rejected before the function of the command is
\* called
C20_UsageErrorsBeforeIO ==
    ( cli_pc # "parse"
      /\ \/ ~CompressionValid
         \/ AutoRoot /\ (~HasOutfile \/ HasRootFolder) )
    => Rejected

\* an invalid compression is rejected
C20_UsageWitness ==
    /\ Rejected
    /\ ~CompressionValid
    /\ message = m_invalid_value

\* a build that fails on the empty pattern given with --exclude after the
\* output was opened
C20_LateErrorWitness ==
    /\ pc = "error"
    /\ exclude_arg = << <<>> >>
    /\ exclude_from = <<>>
    /\ zipfile.state # "none"

(***************************************************************************)
(* More properties of the translator (specification TranslateSpec)         *)
(***************************************************************************)

\* the pattern has a "[" that no "]" closes
HasUnclosedBracket(pattern) ==
    \E i \in 1..Len(pattern) :
        /\ pattern[i] = "["
        /\ \A j \in (i + 1)..Len(pattern) : pattern[j] # "]"

\* the pattern has a bracket expression with a range in the wrong order
HasInvalidRange(pattern) ==
    \E n \in 1..Len(BracketBodies(pattern)) :
        ClassBadRange(BracketBodies(pattern)[n], 1)

\* the translation was called and has returned or failed
Translated == t_pc \in {"compiled", "invalid", "matched", "nomatch"}

\* C21: a line with a malformed bracket expression, an opening "[" that is
\* never closed or a range in the wrong order, is never accepted as a
\* pattern: translating and compiling it fails.
C21_MalformedBracketRejected ==
    ( /\ Translated
      /\ \/ HasUnclosedBracket(t_pattern)
         \/ HasInvalidRange(t_pattern) )
    => t_pc = "invalid"

\* the part of C21 that holds: a range in the wrong order is rejected when
\* the regex is compiled
C21_InvalidRangeRejected ==
    (Translated /\ HasInvalidRange(t_pattern)) => t_pc = "invalid"

\* a pattern with a range in the wrong order was rejected
C21_InvalidRangeWitness ==
    /\ t_pattern = <<"[", "b", "-", "a", "]">>
    /\ t_pc = "invalid"

\* the pattern a[b was accepted and matches the path r/a[b
C21_UnclosedAccepted ==
    /\ t_pattern = <<"a", "[", "b">>
    /\ t_path = <<"r", "/", "a", "[", "b">>
    /\ t_pc = "matched"

(***************************************************************************)
(* Properties of the members written (specification CliSpec)               *)
(***************************************************************************)

\* the three characters stat.filemode prints for three permission bits
Rwx(bits) ==
    << IF (bits \div 4) % 2 = 1 THEN "r" ELSE "-",
       IF (bits \div 2) % 2 = 1 THEN "w" ELSE "-",
       IF bits % 2 = 1 THEN "x" ELSE "-" >>

\* stat.filemode(mode), for a regular file or a directory without special
\* bits
FileModeString(mode) ==
    << IF mode \div 4096 = 4 THEN "d"
       ELSE IF mode \div 4096 = 8 THEN "-"
       ELSE "?" >>
    \o Rwx((mode \div 64) % 8) \o Rwx((mode \div 8) % 8) \o Rwx(mode % 8)

\* the compression method selected on the command line
SelectedCompression ==
    IF o_compression \notin Opts(argv) THEN "ZIP_DEFLATED"
    ELSE IF OptValue(argv, o_compression) = <<"S", "t", "o", "r", "e", "d">>
    THEN "ZIP_STORED"
    ELSE "other"

\* the members of the archive with the name of the visited file r
MembersOf(r) ==
    {m \in BagToSet(zipfile.infolist) : m.filename = PathStr(r.filename)}

\* C22: every entry written carries exactly the bytes of its source file,
\* the mode of its source file and the compression method selected for the
\* build; a file that only its owner may read and execute is stored with
\* mode -r-x------.
C22_EntryKeepsBytesAndMode ==
    /\ \A r \in log :
          r.written =>
             /\ MembersOf(r) # {}
             /\ \A m \in MembersOf(r) :
                   /\ m.data = FsData(r.file)
                   /\ m.external_attr[1] = FsMode(r.file)
                   /\ FileModeString(m.external_attr[1])
                         = FileModeString(FsMode(r.file))
                   /\ m.compress_type = SelectedCompression
                   /\ r.file = <<n_B_txt>> =>
                         FileModeString(m.external_attr[1])
                            = <<"-", "r", "-", "x", "-", "-", "-", "-", "-", "-">>
    /\ \A m \in BagToSet(zipfile.infolist) :
          \E r \in log : r.written /\ m \in MembersOf(r)
    /\ BagCardinality(zipfile.infolist) = BagCardinality(zipfile.entries)

\* a finished build with --compression Stored that wrote the file only its
\* owner may read and execute, next to a file with the usual mode
C22_Witness ==
    /\ pc = "done"
    /\ SelectedCompression = "ZIP_STORED"
    /\ \E m \in BagToSet(zipfile.infolist) :
          /\ m.filename = n_B_txt
          /\ m.compress_type = "ZIP_STORED"
          /\ m.data = n_B_txt
          /\ FileModeString(m.external_attr[1])
                = <<"-", "r", "-", "x", "-", "-", "-", "-", "-", "-">>
    /\ \E m \in BagToSet(zipfile.infolist) :
          FileModeString(m.external_attr[1])
             = <<"-", "r", "w", "-", "r", "-", "-", "r", "-", "-">>

(***************************************************************************)
(* Properties of the key draw (specification KeySpec)                      *)
(***************************************************************************)

\* the draws a second call on the same prefix and pattern may make
Draws == [1..Len(GlobExprs(Normalize(t_pattern))) -> 1..NKeys]

\* no key was drawn twice
Distinct(keys) ==
    \A j, k \in 1..Len(keys) : j # k => keys[j] # keys[k]

\* C23: building twice from the same state gives the same archive; in
\* particular the regex gitignore_to_regex returns for a (prefix, pattern)
\* does not depend on the keys drawn: a second call, whatever it draws,
\* returns the regex of the first one and excludes the same paths.
C23_RegexIndependentOfKeys ==
    Translated =>
       \A keys \in Draws :
          LET again == gitignore_to_regex_keyed(t_prefix, t_pattern, keys)
          IN /\ again = t_regex
             /\ t_pc \in {"matched", "nomatch"} =>
                   (RxMatch(again, t_path) <=> t_pc = "matched")

\* the part of C23 that holds: two calls that each draw pairwise different
\* keys return the same regex, the one of gitignore_to_regex
C23_SameRegexForDistinctKeys ==
    (Translated /\ Distinct(t_keys)) =>
       /\ t_regex = gitignore_to_regex(t_prefix, t_pattern)
       /\ \A keys \in Draws :
             Distinct(keys) =>
                gitignore_to_regex_keyed(t_prefix, t_pattern, keys) = t_regex

\* the pattern */a translated with two different keys
C23_DistinctWitness ==
    /\ t_pattern = <<"*", "/", "a">>
    /\ Len(t_keys) = 2 /\ Distinct(t_keys)
    /\ t_path = <<"r", "/", "b", "/", "a">>
    /\ t_pc = "matched"

\* the pattern */a translated with the same key drawn twice matches r/bba,
\* which the regex of another draw does not match
C23_CollisionWitness ==
    /\ t_pattern = <<"*", "/", "a">>
    /\ Len(t_keys) = 2 /\ t_keys[1] = t_keys[2]
    /\ t_path = <<"r", "/", "b", "b", "a">>
    /\ t_pc = "matched"
    /\ ~RxMatch(gitignore_to_regex(t_prefix, t_pattern), t_path)

(***************************************************************************)
(* The life of the archive writer (specification Spec)                     *)
(***************************************************************************)

\* control is back with the caller of zip_files
Returned == pc \in {"done", "error"}

\* C24: the archive writer is opened exactly once per build, from the state
\* in which it was never opened, and it is closed on every exit path before
\* control returns to the caller: after normal completion and after an error
\* raised while visiting a file at any depth of the walk. No entry is written
\* after the close: a closed archive never changes again.
C24_OpenedOnceClosedOnExit ==
    /\ [](Returned /\ zipfile.state # "none" => zipfile.state = "closed")
    /\ [][raised' # raised /\ pc = "walk" => zipfile'.state = "closed"]_vars
    /\ [](pc = "done" => zipfile.state = "closed")
    /\ [](pc = "walk" <=> zipfile.state = "open")
    /\ [][zipfile'.state = "open" /\ zipfile.state # "open"
             => zipfile.state = "none"]_vars
    /\ [][zipfile.state = "closed" => zipfile' = zipfile]_vars

\* an error raised at a file two directories below its input, after another
\* file was visited: the archive is closed
C24_Witness ==
    /\ pc = "error"
    /\ raised # <<>>
    /\ Len(raised[1].file) = 3
    /\ zipfile.state = "closed"
    /\ log # {}

\* a build that ends normally with entries in the closed archive
C24_DoneWitness ==
    /\ pc = "done"
    /\ zipfile.state = "closed"
    /\ zipfile.entries # EmptyBag

(***************************************************************************)
(* The order of the steps of _add_to_zip (specification CliSpec)           *)
(***************************************************************************)

\* the build was ended by the read of a file that cannot be read
ReadFailed == raised # <<>> /\ raised[1].type = "PermissionError"

\* C25: for each visited file the in-archive name is computed, the dotfile
\* check and the pattern list are applied, and only then is the content
\* read. The content of a file that is skipped is never read: a build is
\* never ended by the read of a file that the checks skip.
C25_SkippedNeverRead ==
    ReadFailed =>
       FileOutcome(raised[1].filename, exclude, exclude_dotfiles) # "skip"

\* the file A/X, which cannot be read, is excluded by the pattern X of x.lst
\* and its read ends the build all the same
C25_ExcludedUnreadableAborts ==
    /\ ReadFailed
    /\ raised[1].file = <<n_A, n_X>>
    /\ exclude_arg = <<>>
    /\ exclude_from = << <<n_x_lst>> >>
    /\ exclude[1].pattern = n_X
    /\ PathMatch(raised[1].filename, exclude[1].pattern)
    /\ pc = "error"
    /\ ExitCode = 1

(***************************************************************************)
(* The pattern list is complete before the archive is opened               *)
(* (specification Spec)                                                    *)
(***************************************************************************)

\* the lines of the exclude-list files from the k-th on, in order
RECURSIVE AllListLines(_)
AllListLines(k) ==
    IF k > Len(exclude_from) THEN <<>>
    ELSE splitlines(exclude_from[k]) \o AllListLines(k + 1)

\* the number of ordinary lines of the .gitignore files of the set S
RECURSIVE OrdinaryLines(_)
OrdinaryLines(S) ==
    IF S = {} THEN 0
    ELSE LET gitignore == CHOOSE g \in S : TRUE
         IN Len(SelectSeq(readlines(gitignore), IsOrdinaryLine))
            + OrdinaryLines(S \ {gitignore})

\* the number of regex patterns the inputs from the k-th on contribute
RECURSIVE GitignorePatterns(_)
GitignorePatterns(k) ==
    IF k > Len(files) THEN 0
    ELSE OrdinaryLines(GitignoresOf(files[k])) + GitignorePatterns(k + 1)

\* the glob part of the complete list: the explicit patterns, then the lines
\* of every exclude-list file, then the VCS set
GlobPart ==
    [n \in 1..Len(exclude_arg) |-> GlobPattern(exclude_arg[n])]
    \o [n \in 1..Len(AllListLines(1)) |-> GlobPattern(AllListLines(1)[n])]
    \o (IF exclude_vcs
        THEN [n \in 1..Len(_VCS_EXCLUDES) |-> GlobPattern(_VCS_EXCLUDES[n])]
        ELSE <<>>)

\* the list is complete: the glob part, then the regex patterns of every
\* discovered .gitignore
ListComplete ==
    /\ Len(exclude) = Len(GlobPart)
                        + (IF exclude_git_ignores THEN GitignorePatterns(1)
                           ELSE 0)
    /\ SubSeq(exclude, 1, Len(GlobPart)) = GlobPart
    /\ \A n \in (Len(GlobPart) + 1)..Len(exclude) : exclude[n].kind = "RegexPattern"

\* C26: the pattern list is built completely (explicit patterns, then every
\* exclude-list file, then the VCS set, then every discovered .gitignore)
\* before the archive is opened, and nothing modifies it afterwards: from the
\* opening on the pattern list keeps its value, and the VCS exclude set and
\* the caller's sequence of explicit patterns never change. A failure while
\* the list is built leaves the output destination untouched: the archive
\* was never opened.
C26_ListCompleteThenFrozen ==
    /\ [](zipfile.state # "none" => ListComplete)
    /\ [][zipfile.state # "none" => exclude' = exclude]_vars
    /\ [][exclude_arg' = exclude_arg /\ vcs_excludes' = vcs_excludes]_vars
    /\ [](vcs_excludes = _VCS_EXCLUDES)
    /\ [][pc \notin {"walk", "cli"} /\ pc' = "error"
             => zipfile.state = "none" /\ zipfile' = zipfile]_vars

\* a traversal with a list made of all four sources: one entry is written
\* and the list is the one the archive was opened with
C26_Witness ==
    /\ pc = "walk"
    /\ zipfile.entries # EmptyBag
    /\ exclude_arg # <<>>
    /\ exclude_from # <<>>
    /\ exclude_vcs
    /\ Len(exclude) > Len(GlobPart)
    /\ ListComplete

\* the second exclude-list file is a directory: the build fails after the
\* first one was read and the archive was never opened
C26_FailureWitness ==
    /\ pc = "error"
    /\ raised # <<>>
    /\ raised[1].type = "IsADirectoryError"
    /\ exclude # <<>>
    /\ zipfile.state = "none"

(***************************************************************************)
(* The regex and its prefix (specification TranslateSpec)                  *)
(***************************************************************************)

\* the path starts with the prefix followed by the path separator
StartsWithPrefix == StartsWith(t_path, t_prefix \o <<"/">>)

\* C27: a regex produced under the prefix P never matches a path that does
\* not start with P followed by the path separator: '*.pyc' under the prefix
\* a matches a/file.pyc but neither b/file.pyc nor ab/file.pyc.
C27_MatchesOnlyBeneathPrefix ==
    /\ t_pc = "matched" => StartsWithPrefix
    /\ \A path \in TOutside \cup TDotPaths \cup
                   { <<"b", "/", "f", "i", "l", "e", ".", "p", "y", "c">>,
                     <<"a", "b", "/", "f", "i", "l", "e", ".", "p", "y", "c">> } :
          (t_pc = "compiled" /\ ~StartsWith(path, t_prefix \o <<"/">>))
          => ~RxMatch(t_regex, path)

\* a path outside the prefix was matched against a regex that matches the
\* same tail beneath the prefix, and is not matched
C27_Witness ==
    /\ t_pc = "nomatch"
    /\ t_prefix = TPrefix
    /\ t_path = <<"r", "a", "/", "a">>
    /\ RxMatch(t_regex, <<"r", "/", "a", "/", "a">>)
    /\ RxMatch(t_regex, <<"r", "/", "a">>)

\* the prefix r.b is taken literally: rab/a is not matched, r.b/a is
C27_EscapedPrefixWitness ==
    /\ t_pc = "nomatch"
    /\ t_prefix = TDotPrefix
    /\ t_path = <<"r", "a", "b", "/", "a">>
    /\ RxMatch(t_regex, <<"r", ".", "b", "/", "a">>)

(***************************************************************************)
(* Descent (specification TranslateSpec)                                   *)
(***************************************************************************)

\* what may follow a matched path and a separator: relative paths of one
\* line
Descents ==
    Strings({"a", "b", "/"}, 2)
    \cup { <<"f", "i", "l", "e", ".", "t", "x", "t">> }

\* file names may hold a newline
NewlineDescents ==
    { <<"a", "\n", "b">>, <<"d", "\n", "e", "/", "f">> }

\* C28: every regex returned by gitignore_to_regex is closed under descent:
\* if it matches a path p it matches every path p + separator + q, so a
\* pattern that matches a directory excludes every file at any depth beneath
\* it.
C28_ClosedUnderDescent ==
    t_pc = "matched" =>
       \A q \in Descents \cup NewlineDescents :
          RxMatch(t_regex, t_path \o <<"/">> \o q)

\* the part of C28 that holds: a regex that matches a path p without a
\* newline matches every p + separator + q in which q has no newline
C28_ClosedUnderDescentOneLine ==
    (t_pc = "matched" /\ IndexFrom(t_path, "\n", 1) = 0) =>
       \A q \in Descents : RxMatch(t_regex, t_path \o <<"/">> \o q)

\* '/build' under the prefix root matches root/build and the paths beneath it
C28_Witness ==
    /\ t_pc = "matched"
    /\ t_prefix = <<"r", "o", "o", "t">>
    /\ t_pattern = <<"/", "b", "u", "i", "l", "d">>
    /\ t_path = <<"r", "o", "o", "t", "/", "b", "u", "i", "l", "d">>
    /\ RxMatch(t_regex, t_path \o <<"/">>)
    /\ RxMatch(t_regex, t_path \o <<"/", "f", "i", "l", "e", ".", "t", "x", "t">>)

\* '/build' matches root/build and does not match root/build/a<newline>b
C28_NewlineWitness ==
    /\ t_pc = "matched"
    /\ t_pattern = <<"/", "b", "u", "i", "l", "d">>
    /\ t_path = <<"r", "o", "o", "t", "/", "b", "u", "i", "l", "d">>
    /\ ~RxMatch(t_regex, t_path \o <<"/", "a", "\n", "b">>)

(***************************************************************************)
(* The names of the entries (specification Spec)                           *)
(***************************************************************************)

\* C29: no two entries written in one build have the same in-archive name,
\* for any sequence of top-level inputs: inputs with the same base name in
\* different directories, an input given twice, a directory given together
\* with a file inside it.
C29_UniqueNames ==
    \A name \in BagToSet(zipfile.entries) :
       CopiesIn(name, zipfile.entries) = 1

\* no two inputs have the same base name
DistinctBaseNames ==
    \A j, k \in 1..Len(files) : j # k => Name(files[j]) # Name(files[k])

\* the part of C29 that holds: the names are unique when no two inputs have
\* the same base name, a directory given together with a file inside it
\* included
C29_UniqueNamesForDistinctBaseNames ==
    DistinctBaseNames => C29_UniqueNames

\* the directory A and the file A/X inside it: the file is written twice,
\* under the two names A/X and X
C29_InsideWitness ==
    /\ pc = "done"
    /\ files = << <<n_A>>, <<n_A, n_X>> >>
    /\ root_folder = <<>>
    /\ CopiesIn(<<"A", "/", "X">>, zipfile.entries) = 1
    /\ CopiesIn(<<"X">>, zipfile.entries) = 1

\* the inputs .gitignore and p/.gitignore: two entries named .gitignore
C29_SameBaseNameWitness ==
    /\ pc = "done"
    /\ files = << <<n_gitignore>>, <<n_p, n_gitignore>> >>
    /\ CopiesIn(n_gitignore, zipfile.entries) = 2

(***************************************************************************)
(* Patterns with an embedded "/**/" and a final "/" or "/**"               *)
(* (specification TranslateSpec)                                           *)
(***************************************************************************)

\* the patterns a/**/b/ and a/**/b/**
ComposedPatterns ==
    { <<"a", "/", "*", "*", "/", "b", "/">>,
      <<"a", "/", "*", "*", "/", "b", "/", "*", "*">> }

\* the path lies beneath a directory b that is zero or more directories
\* below the directory a of the prefix
BeneathB ==
    /\ BeneathPrefix
    /\ Len(TailParts) >= 3
    /\ TailParts[1] = <<"a">>
    /\ \E k \in 2..(Len(TailParts) - 1) : TailParts[k] = <<"b">>

\* C30: the normalisation and substitution rules compose: a pattern with an
\* embedded "/**/" and a final "/" or "/**", such as 'a/**/b/', matches
\* every path beneath a directory b that lies zero or more directories below
\* a: root/a/b/file.txt, root/a/x/b/file.txt.
C30_RulesCompose ==
    (t_pattern \in ComposedPatterns /\ BeneathB)
       => t_pc \notin {"nomatch", "invalid"}

\* each rule on its own does what C30 expects of the composition: a/**/b
\* matches the paths beneath b, whatever lies between a and b
C30_EmbeddedAlone ==
    (t_pattern = <<"a", "/", "*", "*", "/", "b">> /\ BeneathB)
       => t_pc \notin {"nomatch", "invalid"}

\* a/**/b matches root/a/x/b/file.txt
C30_EmbeddedWitness ==
    /\ t_pattern = <<"a", "/", "*", "*", "/", "b">>
    /\ t_path = <<"r", "o", "o", "t", "/", "a", "/", "x", "/", "b", "/",
                  "f", "i", "l", "e", ".", "t", "x", "t">>
    /\ t_pc = "matched"

\* a/**/b/ does not match root/a/b/file.txt
C30_ComposedWitness ==
    /\ t_pattern = <<"a", "/", "*", "*", "/", "b", "/">>
    /\ t_path = <<"r", "o", "o", "t", "/", "a", "/", "b", "/",
                  "f", "i", "l", "e", ".", "t", "x", "t">>
    /\ t_pc = "nomatch"

====
